---- MODULE Spec2Model ----
(***************************************************************************)
(* A model of repomix-rust's file pipeline: the walker (core/file/mod.rs), *)
(* the content reader (read_file), the secret scanner (core/security), the *)
(* content transformer (core/file/process.rs) and the orchestrator         *)
(* (core/pack.rs).                                                         *)
(*                                                                         *)
(* Paths are sequences of path components; a component is a number that    *)
(* stands for a file name, and the order of the numbers is the byte order  *)
(* of the names.  A text is a sequence of lines; a line is one of a few    *)
(* kinds that the scanner and the transforms tell apart.                   *)
(***************************************************************************)
EXTENDS Integers, Sequences, FiniteSets, Bags, TLC

VARIABLES
    caller,            \* "walk": FileWalker::walk called directly; "pack": pack(); "fn": a single function call; "mcp": start_server
    config,            \* the RepomixConfig handed to FileWalker::new / pack
    paths,             \* the root list handed to walk / pack
    run,               \* 1 in the first run of pack, 2 in a repeated run
    first,             \* [tag |-> "none"], or what the first run produced once pack is run again
    disk,              \* the files on disk: absolute path -> file
    pc,                \* position of the walker / pack: "root", "walking", "returned", "done"
    root_idx,          \* index in paths of the root being walked
    todo,              \* traversal entries of the current root not yet yielded
    task,              \* the visit callbacks in flight: absolute path -> callback state
    visited,           \* ghost: bag of the visit invocations [root, abs, rel]
    walk_result,       \* "none", "Ok" or "Err": what walk / walk_parallel returned
    files,             \* pack: the content map, relative path -> final content
    suspicious_files,  \* pack: the suspicious list
    total_chars,       \* pack: the atomic character total
    file_stats,        \* pack: the stats list
    git,               \* what get_file_change_counts answered: [asked, ok, counts]
    result,            \* [tag |-> "none"], [tag |-> "Err"] or the PackResult with tag "Ok"
    fn_in,             \* the argument of a single function call
    fn_out,            \* its return value, [tag |-> "none"] before the call
    stdin,             \* server: the input lines not yet read
    stdout,            \* server: the response lines written
    server             \* "none", "serving", or "Ok" / "Err": what start_server returned

vars == <<caller, config, paths, run, first, disk, pc, root_idx, todo, task,
          visited, walk_result, files, suspicious_files, total_chars,
          file_stats, git, result, fn_in, fn_out, stdin, stdout, server>>

packVars == <<files, suspicious_files, total_chars, file_stats>>
fnVars == <<fn_in, fn_out>>
mcpVars == <<stdin, stdout, server>>

----------------------------------------------------------------------------
(* Bounds of the model *)

\* the first root holds files named 1..NumNames
NumNames == 2
\* the root list handed to walk / pack has at most MaxRoots entries
MaxRoots == 2
\* file sizes range over 0..MaxLen
MaxLen == 3
\* a text handed to process_content alone has at most MaxLines lines
MaxLines == 3
\* the longest text of slashes, stars and newlines
MaxCLen == 8
\* the longest text of hashes or carriage returns, blanks, letters and newlines
MaxHLen == 6
\* lengths range from MaxOff below a threshold of the code to MaxOff above it
\* or, for payloads, from MaxOff below the data-URI threshold to MaxOff
\* above the threshold of the standalone rule
MaxOff == 2
\* chunks lie in the rows 0..MaxRow; at most MaxChunks chunks are merged
MaxRow == 6
MaxChunks == 3
\* the token tree is built of at most MaxEntries entries with paths of at
\* most MaxDepth parts
MaxEntries == 2
MaxDepth == 2
\* top_files_length ranges over 0..MaxTop
MaxTop == 3
\* the server reads at most MaxInput lines
MaxInput == 3
\* the text whose captures are cut into chunks has MaxText lines
MaxText == 2
\* an ignore pattern handed to should_skip alone has at most MaxPat components
MaxPat == 3

----------------------------------------------------------------------------
(* Sequences *)

Range(s) == {s[i] : i \in 1..Len(s)}

RECURSIVE SumSeq(_)
SumSeq(s) == IF s = <<>> THEN 0 ELSE Head(s) + SumSeq(Tail(s))

\* the k-th smallest element of a set of numbers
Kth(S, k) == CHOOSE x \in S : Cardinality({y \in S : y < x}) = k - 1

\* the sequences over S of length at most n
SeqsUpTo(S, n) == UNION {[1..k -> S] : k \in 0..n}

\* the sequences that list every element of the finite set S once
Perms(S) == {p \in [1..Cardinality(S) -> S] : \A i, j \in 1..Cardinality(S) : p[i] = p[j] => i = j}

----------------------------------------------------------------------------
(* Paths.  PathBuf's Ord compares the components in order. *)

RECURSIVE PathLess(_, _)
PathLess(a, b) ==
    IF b = <<>> THEN FALSE
    ELSE IF a = <<>> THEN TRUE
    ELSE IF Head(a) # Head(b) THEN Head(a) < Head(b)
    ELSE PathLess(Tail(a), Tail(b))

IsPrefix(r, p) == Len(r) <= Len(p) /\ SubSeq(p, 1, Len(r)) = r

\* Path::strip_prefix: Err when root is no prefix of path
strip_prefix(path, root) ==
    IF IsPrefix(root, path)
    THEN [ok |-> TRUE, rel |-> SubSeq(path, Len(root) + 1, Len(path))]
    ELSE [ok |-> FALSE, rel |-> <<>>]

\* every component of a relative path is a Normal one here, so the join
\* keeps them all
path_to_unix_string(path) == path

relative_path_str(path, root) ==
    IF strip_prefix(path, root).ok
    THEN path_to_unix_string(strip_prefix(path, root).rel)
    ELSE <<>>

----------------------------------------------------------------------------
(* The directory tree.  Two directories, a regular file and a name that    *)
(* does not exist can be handed over as roots.                             *)

D1 == <<1>>
D2 == <<2>>
NotDir == <<3>>
Missing == <<4>>
RootChoices == {D1, D2, NotDir, Missing}

\* dunce::canonicalize fails on a path that does not exist
canonicalize_ok(raw) == raw # Missing
is_dir_exists(root) == root \in {D1, D2, NotDir}
\* fs::metadata(root).is_dir()
is_dir(root) == root \in {D1, D2}

\* the regular files: names 1..NumNames below D1, and one file below D2 at
\* the relative location of D1's first file
FilesOf(root) ==
    IF root = D1 THEN {D1 \o <<n>> : n \in 1..NumNames}
    ELSE IF root = D2 THEN {D2 \o <<1>>}
    ELSE {}
AllFiles == FilesOf(D1) \cup FilesOf(D2)

\* what the directory traversal of a root yields: the root itself (a
\* directory entry) and its files
EntriesOf(root) ==
    {[path |-> root, is_file |-> FALSE]} \cup {[path |-> f, is_file |-> TRUE] : f \in FilesOf(root)}

----------------------------------------------------------------------------
(* Glob patterns.  A pattern is a sequence of components: a number n >= 1  *)
(* is the literal name n, Star is "*", StarStar is "**".  A pattern as the *)
(* user writes it may also end in a slash.  Names DotNames contain a dot.  *)

Star == 0
StarStar == -1
DotNames == 1..NumNames
\* the name of a directory: it holds no dot
DirName == NumNames + 1
\* the empty component: what follows the last slash of "name/", and what
\* lies between the slashes of "**//**"; no component of a path is empty
Empty == -2

\* globset with its default options: "*" also crosses separators, a
\* leading or inner "**/" matches any number of directories, a trailing
\* "/**" matches everything below
RECURSIVE GlobMatch(_, _)
GlobMatch(pat, path) ==
    IF pat = <<>> THEN path = <<>>
    ELSE IF Head(pat) = StarStar THEN
        IF Len(pat) = 1 THEN path # <<>>
        ELSE \E k \in 0..Len(path) : GlobMatch(Tail(pat), SubSeq(path, k + 1, Len(path)))
    ELSE IF Head(pat) = Star THEN
        \E k \in 1..Len(path) : GlobMatch(Tail(pat), SubSeq(path, k + 1, Len(path)))
    ELSE path # <<>> /\ Head(path) = Head(pat) /\ GlobMatch(Tail(pat), Tail(path))

\* GlobSet::is_match
is_match(globs, path) == \E g \in globs : GlobMatch(g, path)

MATCH_ALL_PATTERN == <<StarStar, Star>>

\* the names of the model hold none of ( ) [ ] \, the characters
\* escape_glob_pattern puts a backslash before, and no backslash for
\* to_unix_separators to turn
escape_glob_pattern(pattern) == pattern
to_unix_separators(value) == value

ContainsSlashStarStar(comps) == \E i \in 2..Len(comps) : comps[i] = StarStar
ContainsDot(comps) == \E i \in 1..Len(comps) : comps[i] \in DotNames

\* the components of a written pattern, cut at its slashes
Written(unix) == unix.comps \o (IF unix.slash THEN <<Empty>> ELSE <<>>)

\* a written pattern [comps, slash] becomes the glob handed to Glob::new
normalize_ignore_pattern(pattern) ==
    LET unix == to_unix_separators(pattern) IN
    IF unix.slash /\ ~(unix.comps # <<>> /\ unix.comps[Len(unix.comps)] = StarStar)
    THEN unix.comps
    ELSE IF /\ unix.comps # <<>> /\ Head(unix.comps) = StarStar
            /\ (Len(unix.comps) > 1 \/ unix.slash)
            /\ ~ContainsSlashStarStar(unix.comps)
            /\ ~ContainsDot(unix.comps)
    THEN Written(unix) \o <<StarStar>>
    ELSE Written(unix)

\* the built-in ignore list: the file name 2 at any depth
DEFAULT_IGNORE_PATTERNS == {[comps |-> <<StarStar, 2>>, slash |-> FALSE]}

\* build_globset: None for an empty list
build_globset(patterns) == patterns

\* FileWalker::new
custom_ignore(cfg) == build_globset({normalize_ignore_pattern(p) : p \in cfg.custom_patterns})
default_ignore(cfg) ==
    IF cfg.use_default_patterns
    THEN build_globset({normalize_ignore_pattern(p) : p \in DEFAULT_IGNORE_PATTERNS})
    ELSE {}

\* FileWalker::include_patterns_for_root
include_patterns_for_root(cfg, root) ==
    LET globs == {escape_glob_pattern(to_unix_separators(p)) : p \in cfg.include}
        stdin_globs == {escape_glob_pattern(path_to_unix_string(strip_prefix(p, root).rel)) :
                           p \in {q \in cfg.stdin_file_paths :
                                     strip_prefix(q, root).ok /\ strip_prefix(q, root).rel # <<>>}}
        patterns == globs \cup stdin_globs
    IN IF patterns = {} THEN {MATCH_ALL_PATTERN} ELSE patterns

\* IncludeMatcher::matches
include_matches(cfg, root, relative) == is_match(include_patterns_for_root(cfg, root), relative)

should_skip_no_custom(cfg, relative, absolute) ==
    \/ cfg.output_path # <<>> /\ absolute = cfg.output_path
    \/ is_match(default_ignore(cfg), relative)

should_skip_no_output(cfg, relative, absolute) ==
    \/ is_match(custom_ignore(cfg), relative)
    \/ is_match(default_ignore(cfg), relative)

\* FileWalker::should_skip
should_skip(cfg, relative, absolute) ==
    \/ cfg.output_path # <<>> /\ absolute = cfg.output_path
    \/ is_match(custom_ignore(cfg), relative)
    \/ is_match(default_ignore(cfg), relative)

\* the body of walk_root's loop: whether visit is invoked for an entry
Visits(cfg, root, entry) ==
    /\ entry.is_file
    /\ relative_path_str(entry.path, root) # <<>>
    /\ include_matches(cfg, root, relative_path_str(entry.path, root))
    /\ ~should_skip(cfg, relative_path_str(entry.path, root), entry.path)

\* walk_parallel, which pack calls, is not among the sources: it is taken
\* to select the entries walk selects
walk_parallel(cfg, root, entry) == Visits(cfg, root, entry)

----------------------------------------------------------------------------
(* Texts.  A line is one of:                                               *)
(*   "sig"    a declaration line, which the compression queries capture    *)
(*   "body"   an implementation line, which compression elides             *)
(*   "cmt"    a line that is a // comment                                  *)
(*   "blank"  an empty line                                                *)
(*   "key"    an implementation line holding an AWS access key id          *)
(*   "cmtkey" a // comment holding an AWS access key id                    *)
(*   "b64"    a line that is one long base64 run, "b64t" its truncation    *)
(*   "b64key" a long base64 run with a detector match past its preview     *)
(*   "sep"    the chunk separator line of the compression engine           *)
(*   "hdr", "open", "close"  lines the renderer writes: the summary, and   *)
(*            the opening and closing line around a file's content         *)

LineKinds == {"sig", "body", "cmt", "blank", "key", "cmtkey", "b64", "b64key"}

\* characters and tokens of a line of each kind
LineChars(l) ==
    CASE l = "sig" -> 4 [] l = "body" -> 6 [] l = "cmt" -> 3 [] l = "blank" -> 0
      [] l = "key" -> 7 [] l = "cmtkey" -> 8 [] l = "b64" -> 9 [] l = "b64t" -> 5
      [] l = "b64key" -> 9
      [] l = "sep" -> 5 [] l = "hdr" -> 9 [] l = "open" -> 6 [] l = "close" -> 7
LineTokens(l) ==
    CASE l = "sig" -> 2 [] l = "body" -> 3 [] l = "cmt" -> 1 [] l = "blank" -> 0
      [] l = "key" -> 3 [] l = "cmtkey" -> 3 [] l = "b64" -> 4 [] l = "b64t" -> 2
      [] l = "b64key" -> 4
      [] l = "sep" -> 1 [] l = "hdr" -> 4 [] l = "open" -> 2 [] l = "close" -> 2

\* str::chars().count(): the characters of the lines and the newlines between them
chars_count(text) ==
    SumSeq([i \in 1..Len(text) |-> LineChars(text[i])]) + (IF text = <<>> THEN 0 ELSE Len(text) - 1)

\* metrics::count_tokens: always Ok
count_tokens(text) == SumSeq([i \in 1..Len(text) |-> LineTokens(text[i])])

\* security::scan_content: Some(..) iff a detector matches
scan_content(content) == \E i \in 1..Len(content) : content[i] \in {"key", "cmtkey", "b64key"}

\* the extensions of the model: "rs" has C-like comments and a grammar,
\* "txt" has neither, "png" is in the known-binary set
Extensions == {"rs", "txt", "png"}
is_probably_binary(ext) == ext = "png"

truncate_base64_content(text) ==
    [i \in 1..Len(text) |-> IF text[i] \in {"b64", "b64key"} THEN "b64t" ELSE text[i]]

\* a line comment is cut up to, not including, its line terminator
strip_c_like_comments(text) ==
    [i \in 1..Len(text) |-> IF text[i] \in {"cmt", "cmtkey"} THEN "blank" ELSE text[i]]

strip_comments(text, ext) ==
    IF ext = "rs" THEN strip_c_like_comments(text) ELSE text

IsNonBlank(l) == l # "blank"
remove_empty_lines(text) == SelectSeq(text, IsNonBlank)

\* str::trim: white space at both ends goes, blank lines and their newlines included
RECURSIVE trim_start(_)
trim_start(text) ==
    IF text # <<>> /\ Head(text) = "blank" THEN trim_start(Tail(text)) ELSE text
RECURSIVE trim_end(_)
trim_end(text) ==
    IF text # <<>> /\ text[Len(text)] = "blank" THEN trim_end(SubSeq(text, 1, Len(text) - 1)) ELSE text
trim(text) == trim_end(trim_start(text))

\* the lines a capture of the compression queries covers
Captured(l) == l \in {"sig", "cmt", "cmtkey"}

\* compress_content on a text the parser accepted: the captured lines, a
\* separator wherever lines between two of them were elided
RECURSIVE MergeRuns(_, _, _)
MergeRuns(text, i, last) ==
    IF i > Len(text) THEN <<>>
    ELSE IF ~Captured(text[i]) THEN MergeRuns(text, i + 1, last)
    ELSE (IF last = 0 \/ last + 1 = i THEN <<>> ELSE <<"sep">>)
         \o <<text[i]>> \o MergeRuns(text, i + 1, i)

\* compress::compress_content: Ok(input) for an extension without a
\* grammar, Err when Parser::parse returns None
compress_content(text, ext, parse_ok) ==
    IF ext # "rs" THEN [ok |-> TRUE, text |-> text]
    ELSE IF ~parse_ok THEN [ok |-> FALSE, text |-> <<>>]
    ELSE [ok |-> TRUE, text |-> MergeRuns(text, 1, 0)]

\* Result::unwrap_or
unwrap_or(res, default) == IF res.ok THEN res.text ELSE default

\* process_content, lines 33-36: the compression stage
compress_step(processed, ext, parse_ok) ==
    [ok |-> TRUE, text |-> unwrap_or(compress_content(processed, ext, parse_ok), processed)]

process_content_swapped(content, file, cfg) ==
    LET p1 == IF cfg.truncate_base64 THEN truncate_base64_content(content) ELSE content
        p2 == IF cfg.remove_empty_lines THEN remove_empty_lines(p1) ELSE p1
        p3 == IF cfg.remove_comments THEN strip_comments(p2, file.ext) ELSE p2
        p4 == trim(p3)
    IN IF cfg.compress THEN compress_step(p4, file.ext, file.parse_ok)
       ELSE [ok |-> TRUE, text |-> p4]

\* process::process_content
process_content(content, file, cfg) ==
    LET p1 == IF cfg.truncate_base64 THEN truncate_base64_content(content) ELSE content
        p2 == IF cfg.remove_comments THEN strip_comments(p1, file.ext) ELSE p1
        p3 == IF cfg.remove_empty_lines THEN remove_empty_lines(p2) ELSE p2
        p4 == trim(p3)
    IN IF cfg.compress THEN compress_step(p4, file.ext, file.parse_ok)
       ELSE [ok |-> TRUE, text |-> p4]

----------------------------------------------------------------------------
(* Files on disk.  A file is a record                                      *)
(*   meta_err     fs::metadata fails                                       *)
(*   len          its length in bytes                                      *)
(*   ext          its extension                                            *)
(*   read_err     fs::read fails                                           *)
(*   bin_content  content_inspector classifies its bytes as binary         *)
(*   utf8_ok      its bytes are valid UTF-8                                *)
(*   text         its bytes decoded                                        *)
(*   parse_ok     the grammar of its extension parses it                   *)

read_file_ge(file, max_file_size) ==
    IF file.meta_err THEN [tag |-> "Err", content |-> <<>>, read |-> FALSE]
    ELSE IF file.len >= max_file_size THEN [tag |-> "None", content |-> <<>>, read |-> FALSE]
    ELSE IF file.ext = "png" THEN [tag |-> "None", content |-> <<>>, read |-> FALSE]
    ELSE IF file.read_err THEN [tag |-> "Err", content |-> <<>>, read |-> TRUE]
    ELSE IF file.bin_content THEN [tag |-> "None", content |-> <<>>, read |-> TRUE]
    ELSE IF ~file.utf8_ok THEN [tag |-> "None", content |-> <<>>, read |-> TRUE]
    ELSE [tag |-> "Some", content |-> file.text, read |-> TRUE]

\* file::read_file: [tag |-> "Err" | "None" | "Some", content, read]; read
\* tells whether fs::read was called
read_file(file, max_file_size) ==
    IF file.meta_err THEN [tag |-> "Err", content |-> <<>>, read |-> FALSE]
    ELSE IF file.len > max_file_size THEN [tag |-> "None", content |-> <<>>, read |-> FALSE]
    ELSE IF is_probably_binary(file.ext) THEN [tag |-> "None", content |-> <<>>, read |-> FALSE]
    ELSE IF file.read_err THEN [tag |-> "Err", content |-> <<>>, read |-> TRUE]
    ELSE IF file.bin_content THEN [tag |-> "None", content |-> <<>>, read |-> TRUE]
    ELSE IF ~file.utf8_ok THEN [tag |-> "None", content |-> <<>>, read |-> TRUE]
    ELSE [tag |-> "Some", content |-> file.text, read |-> TRUE]

----------------------------------------------------------------------------
(* The orderings pack sorts by *)

\* HashMap::get(..).copied().unwrap_or(0) on the change counts
count_of(counts, path) == IF path \in DOMAIN counts THEN counts[path] ELSE 0

by_count_only(counts, a, b) == count_of(counts, a) < count_of(counts, b)

\* pack.rs 133-137: ca.cmp(&cb).then_with(|| a.cmp(b))
by_changes(counts, a, b) ==
    \/ count_of(counts, a) < count_of(counts, b)
    \/ count_of(counts, a) = count_of(counts, b) /\ PathLess(a, b)

by_tokens_asc(a, b) == a.token_count < b.token_count

\* pack.rs 150: b.token_count.cmp(&a.token_count)
by_tokens_desc(a, b) == a.token_count > b.token_count

\* String::len of a chunk's content: the bytes of its lines and of the
\* "\n" between them; a chunk's content is the list of its rows, counted
\* from 0, and text_lines holds the bytes and characters of every line
content_len(text_lines, chunk) ==
    SumSeq([i \in 1..Len(chunk.content) |-> text_lines[chunk.content[i] + 1].bytes])
        + Len(chunk.content) - 1

by_content_len_asc(text_lines, a, b) == content_len(text_lines, a) < content_len(text_lines, b)

\* compress/mod.rs 82: b.content.len().cmp(&a.content.len())
by_content_len_desc(text_lines, a, b) == content_len(text_lines, a) > content_len(text_lines, b)

\* compress/mod.rs 88: a.start_row.cmp(&b.start_row)
by_start_row(a, b) == a.start_row < b.start_row

\* an ordering is [by |-> "path"], [by |-> "changes", counts |-> ..],
\* [by |-> "tokens"], [by |-> "len", lines |-> ..] or [by |-> "start"]
Less(ord, a, b) ==
    CASE ord.by = "path" -> PathLess(a, b)
      [] ord.by = "changes" -> by_changes(ord.counts, a, b)
      [] ord.by = "tokens" -> by_tokens_desc(a, b)
      [] ord.by = "len" -> by_content_len_desc(ord.lines, a, b)
      [] ord.by = "start" -> by_start_row(a, b)

\* slice::sort_by is a stable sort: insertion keeps an element behind the
\* earlier ones it does not come before
RECURSIVE InsertSorted(_, _, _)
InsertSorted(x, s, ord) ==
    IF s = <<>> THEN <<x>>
    ELSE IF Less(ord, x, Head(s)) THEN <<x>> \o s
    ELSE <<Head(s)>> \o InsertSorted(x, Tail(s), ord)

RECURSIVE SortBy(_, _)
SortBy(s, ord) ==
    IF s = <<>> THEN <<>>
    ELSE InsertSorted(s[Len(s)], SortBy(SubSeq(s, 1, Len(s) - 1), ord), ord)

----------------------------------------------------------------------------
(* The orchestrator's pure steps *)

\* pack.rs 121-146: the path list for the renderer, from the map's keys in
\* the order the HashMap iterates them; answer is what
\* get_file_change_counts returned
sort_paths(keys, cfg, answer) ==
    IF cfg.sort_by_changes /\ answer.ok
    THEN SortBy(keys, [by |-> "changes", counts |-> answer.counts])
    ELSE SortBy(keys, [by |-> "path"])

sort_stats(stats) == SortBy(stats, [by |-> "tokens"])

\* pack.rs 151-156
top_files_of(stats, cfg) ==
    IF cfg.top_files_length = 0 THEN <<>>
    ELSE SubSeq(stats, 1, IF cfg.top_files_length < Len(stats) THEN cfg.top_files_length ELSE Len(stats))

\* output::format: the summary, then every path of sorted_paths with its
\* content from the map between an opening and a closing line
RECURSIVE render_files(_, _)
render_files(map, sorted) ==
    IF sorted = <<>> THEN <<>>
    ELSE <<"open">> \o map[Head(sorted)] \o <<"close">> \o render_files(map, Tail(sorted))
format(map, sorted) == <<"hdr">> \o render_files(map, sorted)

callback_local_scan_final(file, cfg) ==
    LET r == read_file(file, cfg.max_file_size)
        p == process_content(r.content, file, cfg)
    IN IF r.tag # "Some" THEN [next |-> "return", final |-> <<>>]
       ELSE IF cfg.enable_security_check /\ scan_content(p.text)
       THEN [next |-> "susp", final |-> <<>>]
       ELSE [next |-> "add", final |-> IF p.ok THEN p.text ELSE r.content]

callback_local_keep_skipped(file, cfg) ==
    LET r == read_file(file, cfg.max_file_size) IN
    IF r.tag = "Err" THEN [next |-> "return", final |-> <<>>]
    ELSE IF cfg.enable_security_check /\ scan_content(r.content)
    THEN [next |-> "susp", final |-> <<>>]
    ELSE LET p == process_content(r.content, file, cfg) IN
         [next |-> "add", final |-> IF p.ok THEN p.text ELSE r.content]

\* the callback of pack.rs 52-107 up to its first write to shared state:
\* read, scan, transform.  [next, final]: next is "return" (nothing is
\* recorded), "susp" (the path goes to the suspicious list) or "add"
callback_local(file, cfg) ==
    LET r == read_file(file, cfg.max_file_size) IN
    IF r.tag # "Some" THEN [next |-> "return", final |-> <<>>]
    ELSE IF cfg.enable_security_check /\ scan_content(r.content)
    THEN [next |-> "susp", final |-> <<>>]
    ELSE LET p == process_content(r.content, file, cfg) IN
         [next |-> "add", final |-> IF p.ok THEN p.text ELSE r.content]

----------------------------------------------------------------------------
(* Inputs *)

DefaultConfig ==
    [include |-> {}, custom_patterns |-> {}, use_default_patterns |-> FALSE,
     stdin_file_paths |-> {}, output_path |-> <<>>, max_file_size |-> MaxLen - 1,
     enable_security_check |-> TRUE, truncate_base64 |-> FALSE, remove_comments |-> FALSE,
     remove_empty_lines |-> FALSE, compress |-> FALSE, sort_by_changes |-> FALSE,
     top_files_length |-> 1]

\* the patterns and paths a caller of the walker configures
IncludeChoices == {<<1>>, <<2>>}
CustomChoices == {[comps |-> <<1>>, slash |-> FALSE], [comps |-> <<Star>>, slash |-> FALSE]}
StdinChoices == {D1 \o <<1>>, D2 \o <<1>>}
OutputChoices == {<<>>, D1 \o <<1>>}

WalkConfigs ==
    {[DefaultConfig EXCEPT !.include = inc, !.custom_patterns = cus, !.use_default_patterns = def,
                           !.stdin_file_paths = sin, !.output_path = out] :
        inc \in SUBSET IncludeChoices, cus \in SUBSET CustomChoices, def \in BOOLEAN,
        sin \in SUBSET StdinChoices, out \in OutputChoices}

RootLists == SeqsUpTo(RootChoices, MaxRoots)

\* the files pack meets on disk: one that cannot be read, one above the
\* size limit, one with a key in a comment, one with a key in a body, one
\* with a key in a base64 run, one with a comment, and one the grammar of
\* its extension does not parse
PlainFile ==
    [meta_err |-> FALSE, len |-> 1, ext |-> "rs", read_err |-> FALSE, bin_content |-> FALSE,
     utf8_ok |-> TRUE, text |-> <<"cmt", "sig", "body", "sig">>, parse_ok |-> TRUE]
SecretFile == [PlainFile EXCEPT !.text = <<"cmtkey", "sig", "body">>]
PackFiles ==
    {[PlainFile EXCEPT !.meta_err = TRUE],
     [PlainFile EXCEPT !.len = MaxLen],
     SecretFile,
     [PlainFile EXCEPT !.text = <<"sig", "key", "sig">>],
     [PlainFile EXCEPT !.text = <<"sig", "b64key">>],
     PlainFile,
     [PlainFile EXCEPT !.text = <<"sig", "blank", "b64">>, !.parse_ok = FALSE]}

\* The first file of the first directory is the file that varies; the
\* other files are PlainFile.
DiskWith(file) == [f \in AllFiles |-> IF f = D1 \o <<1>> THEN file ELSE PlainFile]
DirLists == {<<D1>>, <<D2>>, <<D1, D2>>, <<D2, D1>>}

\* pack is run
\*   with the security check and every setting of the four transforms, over
\*   the first directory, on any file of PackFiles;
\*   with no transform, over one directory or both, on PlainFile or
\*   SecretFile, with or without the security check and sort_by_changes;
\*   with the default configuration over any list of roots;
\*   with top_files_length from 0 to MaxTop, over the first directory, on
\*   files of equal and of different token counts.
TransformInputs ==
    {[config |-> [DefaultConfig EXCEPT !.truncate_base64 = t[1], !.remove_comments = t[2],
                                       !.remove_empty_lines = t[3], !.compress = t[4]],
      paths |-> <<D1>>,
      disk |-> DiskWith(file)] : t \in [1..4 -> BOOLEAN], file \in PackFiles}
DirInputs ==
    {[config |-> [DefaultConfig EXCEPT !.enable_security_check = sec, !.sort_by_changes = srt],
      paths |-> roots,
      disk |-> DiskWith(file)] :
        sec \in BOOLEAN, srt \in BOOLEAN, roots \in DirLists, file \in {PlainFile, SecretFile}}
RootInputs ==
    {[config |-> DefaultConfig, paths |-> roots, disk |-> DiskWith(PlainFile)] : roots \in RootLists}
TopInputs ==
    {[config |-> [DefaultConfig EXCEPT !.top_files_length = top],
      paths |-> <<D1>>,
      disk |-> DiskWith(file)] :
        top \in 0..MaxTop, file \in {PlainFile, [PlainFile EXCEPT !.text = <<"sig", "blank", "b64">>]}}
PackInputs == TransformInputs \cup DirInputs \cup RootInputs \cup TopInputs

\* what get_file_change_counts can answer: an error, or a count for some
\* of the relative paths
GitAnswers ==
    {[asked |-> TRUE, ok |-> FALSE, counts |-> <<>>]} \cup
    {[asked |-> TRUE, ok |-> TRUE, counts |-> c] :
        c \in UNION {[S -> {1}] : S \in SUBSET {<<n>> : n \in 1..NumNames}}}
NotAsked == [asked |-> FALSE, ok |-> FALSE, counts |-> <<>>]

None == [tag |-> "none"]
Err == [tag |-> "Err"]

Idle(c) ==
    /\ caller = c
    /\ run = 1
    /\ first = None
    /\ pc = "root"
    /\ root_idx = 1
    /\ todo = {}
    /\ task = <<>>
    /\ visited = EmptyBag
    /\ walk_result = "none"
    /\ files = <<>>
    /\ suspicious_files = <<>>
    /\ total_chars = 0
    /\ file_stats = <<>>
    /\ git = NotAsked
    /\ result = None
    /\ fn_out = None
    /\ stdin = <<>>
    /\ stdout = <<>>
    /\ server = "none"

InitWalk ==
    /\ Idle("walk") /\ fn_in = None
    /\ config \in WalkConfigs /\ paths \in RootLists
    /\ disk = DiskWith(PlainFile)
InitPack ==
    /\ Idle("pack") /\ fn_in = None
    /\ \E i \in PackInputs : config = i.config /\ paths = i.paths /\ disk = i.disk
Init == InitWalk \/ InitPack

----------------------------------------------------------------------------
(* The walker: FileWalker::walk, and walk_parallel, which pack calls.      *)
(* walk_parallel runs the same loop over the roots and the same test per   *)
(* entry, and invokes visit on its worker threads: the entries of a root   *)
(* are visited in any order and the callbacks run concurrently; the walk   *)
(* of a root ends when all of them have returned.                          *)

Put(f, k, v) == [x \in DOMAIN f \cup {k} |-> IF x = k THEN v ELSE f[x]]
Drop(f, k) == [x \in DOMAIN f \ {k} |-> f[x]]

Root == paths[root_idx]
walkerVars == <<pc, root_idx, todo, walk_result>>

Return(res) ==
    /\ walk_result' = res
    /\ pc' = "returned"
    /\ UNCHANGED <<root_idx, todo>>

\* mod.rs 75-77: bail!("No target directories supplied")
WalkEmpty ==
    /\ pc = "root" /\ paths = <<>>
    /\ Return("Err")
    /\ UNCHANGED <<caller, config, paths, run, first, disk, task, visited, git, result>>
    /\ UNCHANGED packVars /\ UNCHANGED fnVars /\ UNCHANGED mcpVars

\* mod.rs 80-81: canonicalize fails
WalkRootMissing ==
    /\ pc = "root" /\ root_idx <= Len(paths)
    /\ ~canonicalize_ok(Root)
    /\ Return("Err")
    /\ UNCHANGED <<caller, config, paths, run, first, disk, task, visited, git, result>>
    /\ UNCHANGED packVars /\ UNCHANGED fnVars /\ UNCHANGED mcpVars

\* mod.rs 85-87: bail!("Target path is not a directory")
WalkRootNotDir ==
    /\ pc = "root" /\ root_idx <= Len(paths)
    /\ canonicalize_ok(Root) /\ ~is_dir(Root)
    /\ Return("Err")
    /\ UNCHANGED <<caller, config, paths, run, first, disk, task, visited, git, result>>
    /\ UNCHANGED packVars /\ UNCHANGED fnVars /\ UNCHANGED mcpVars

\* mod.rs 89, 99-104: walk_root starts the traversal of the root
WalkRootEnter ==
    /\ pc = "root" /\ root_idx <= Len(paths)
    /\ canonicalize_ok(Root) /\ is_dir(Root)
    /\ pc' = "walking"
    /\ todo' = EntriesOf(Root)
    /\ UNCHANGED <<root_idx, walk_result>>
    /\ UNCHANGED <<caller, config, paths, run, first, disk, task, visited, git, result>>
    /\ UNCHANGED packVars /\ UNCHANGED fnVars /\ UNCHANGED mcpVars

\* mod.rs 107-125: an entry that is not visited
WalkSkip(e) ==
    /\ pc = "walking" /\ e \in todo
    /\ ~Visits(config, Root, e)
    /\ todo' = todo \ {e}
    /\ UNCHANGED <<pc, root_idx, walk_result>>
    /\ UNCHANGED <<caller, config, paths, run, first, disk, task, visited, git, result>>
    /\ UNCHANGED packVars /\ UNCHANGED fnVars /\ UNCHANGED mcpVars

Visit(e) == [root |-> root_idx, abs |-> e.path, rel |-> relative_path_str(e.path, Root)]

\* mod.rs 127, called through walk: callback(..)? with a callback that
\* answers Ok or Err
WalkVisit(e, ok) ==
    /\ caller = "walk"
    /\ pc = "walking" /\ e \in todo
    /\ Visits(config, Root, e)
    /\ visited' = visited (+) SetToBag({Visit(e)})
    /\ IF ok THEN todo' = todo \ {e} /\ UNCHANGED <<pc, root_idx, walk_result>>
       ELSE Return("Err")
    /\ UNCHANGED <<caller, config, paths, run, first, disk, task, git, result>>
    /\ UNCHANGED packVars /\ UNCHANGED fnVars /\ UNCHANGED mcpVars

\* the traversal of the root is over and every callback has returned
WalkRootDone ==
    /\ pc = "walking" /\ todo = {} /\ DOMAIN task = {}
    /\ pc' = "root"
    /\ root_idx' = root_idx + 1
    /\ UNCHANGED <<todo, walk_result>>
    /\ UNCHANGED <<caller, config, paths, run, first, disk, task, visited, git, result>>
    /\ UNCHANGED packVars /\ UNCHANGED fnVars /\ UNCHANGED mcpVars

\* mod.rs 92: Ok(()) after the last root
WalkReturnOk ==
    /\ pc = "root" /\ paths # <<>> /\ root_idx > Len(paths)
    /\ Return("Ok")
    /\ UNCHANGED <<caller, config, paths, run, first, disk, task, visited, git, result>>
    /\ UNCHANGED packVars /\ UNCHANGED fnVars /\ UNCHANGED mcpVars

----------------------------------------------------------------------------
(* pack: the callback *)

\* pack.rs 52-83: visit is invoked on a worker thread, which reads the
\* file, scans it, transforms it and counts the tokens and characters of
\* what it is left with; it holds no lock (held) while it does
PackVisit(e) ==
    /\ caller = "pack"
    /\ pc = "walking" /\ e \in todo
    /\ walk_parallel(config, Root, e)
    /\ todo' = todo \ {e}
    /\ visited' = visited (+) SetToBag({Visit(e)})
    /\ LET c == callback_local(disk[e.path], config) IN
       IF c.next = "return" THEN task' = task
       ELSE task' = Put(task, e.path, [pc |-> c.next, rel |-> Visit(e).rel, final |-> c.final,
                                       token_count |-> count_tokens(c.final),
                                       char_count |-> chars_count(c.final),
                                       held |-> {}])
    /\ UNCHANGED <<pc, root_idx, walk_result>>
    /\ UNCHANGED <<caller, config, paths, run, first, disk, git, result>>
    /\ UNCHANGED packVars /\ UNCHANGED fnVars /\ UNCHANGED mcpVars

Step(a, at, next) ==
    /\ caller = "pack"
    /\ a \in DOMAIN task /\ task[a].pc = at
    /\ task' = IF next = "return" THEN Drop(task, a) ELSE [task EXCEPT ![a].pc = next]
    /\ UNCHANGED walkerVars
    /\ UNCHANGED <<caller, config, paths, run, first, disk, visited, git, result>>
    /\ UNCHANGED fnVars /\ UNCHANGED mcpVars

\* pack.rs 67-68: suspicious_files.lock().unwrap().push(relative_path)
PushSuspicious(a) ==
    /\ Step(a, "susp", "return")
    /\ suspicious_files' = Append(suspicious_files, task[a].rel)
    /\ UNCHANGED <<files, total_chars, file_stats>>

add_chars_store(total, n) == n
\* AtomicUsize::fetch_add
fetch_add(total, n) == total + n

\* pack.rs 85
AddChars(a) ==
    /\ Step(a, "add", "push")
    /\ total_chars' = fetch_add(total_chars, chars_count(task[a].final))
    /\ UNCHANGED <<files, suspicious_files, file_stats>>

\* pack.rs 87-94
PushStats(a) ==
    /\ Step(a, "push", "insert")
    /\ file_stats' = Append(file_stats, [path |-> task[a].rel,
                                         token_count |-> count_tokens(task[a].final),
                                         char_count |-> chars_count(task[a].final)])
    /\ UNCHANGED <<files, suspicious_files, total_chars>>

\* pack.rs 96-99: HashMap::insert replaces the value of a key that is there
InsertFile(a) ==
    /\ Step(a, "insert", "return")
    /\ files' = Put(files, task[a].rel, task[a].final)
    /\ UNCHANGED <<suspicious_files, total_chars, file_stats>>

----------------------------------------------------------------------------
(* pack: the callback, with the locks of its three mutexes.  A task holds  *)
(* the set of locks task[a].held; Mutex::lock blocks while another task    *)
(* holds the lock; the guard is dropped at the end of the statement (67)   *)
(* or of the block (87-94, 96-99) it lives in.                             *)

\* the mutex a task is about to lock at a position
LockAt(at) ==
    CASE at = "susp" -> "suspicious_files"
      [] at = "push" -> "file_stats"
      [] at = "insert" -> "files"

\* no task holds the lock
is_free(l) == \A b \in DOMAIN task : l \notin task[b].held

\* Mutex::lock returns the guard
lock(held, l) == held \cup {l}

unlock_at_return(held, l) == held
\* the guard goes out of scope
unlock(held, l) == held \ {l}

StepHeld(a, at, next, held) ==
    /\ caller = "pack"
    /\ a \in DOMAIN task /\ task[a].pc = at
    /\ task' = IF next = "return" THEN Drop(task, a)
               ELSE [task EXCEPT ![a].pc = next, ![a].held = held]
    /\ UNCHANGED walkerVars
    /\ UNCHANGED <<caller, config, paths, run, first, disk, visited, git, result>>
    /\ UNCHANGED fnVars /\ UNCHANGED mcpVars

\* pack.rs 67, 88, 97: x.lock().unwrap()
Lock(a, at) ==
    /\ a \in DOMAIN task /\ task[a].pc = at /\ at \in {"susp", "push", "insert"}
    /\ is_free(LockAt(at))
    /\ StepHeld(a, at, at \o "_locked", lock(task[a].held, LockAt(at)))
    /\ UNCHANGED packVars

\* pack.rs 67-68: the push under the lock; the guard is dropped and the
\* callback returns
PushSuspiciousLocked(a) ==
    /\ StepHeld(a, "susp_locked", "return", unlock(task[a].held, "suspicious_files"))
    /\ suspicious_files' = Append(suspicious_files, task[a].rel)
    /\ UNCHANGED <<files, total_chars, file_stats>>

\* pack.rs 89-94: the push under the lock, and the end of the block
PushStatsLocked(a) ==
    /\ StepHeld(a, "push_locked", "insert", unlock(task[a].held, "file_stats"))
    /\ file_stats' = Append(file_stats, [path |-> task[a].rel,
                                         token_count |-> task[a].token_count,
                                         char_count |-> task[a].char_count])
    /\ UNCHANGED <<files, suspicious_files, total_chars>>

\* pack.rs 98-99, 106: the insert under the lock, the end of the block and
\* the return of the callback
InsertFileLocked(a) ==
    /\ StepHeld(a, "insert_locked", "return", unlock(task[a].held, "files"))
    /\ files' = Put(files, task[a].rel, task[a].final)
    /\ UNCHANGED <<suspicious_files, total_chars, file_stats>>

----------------------------------------------------------------------------
(* pack: after the walk *)

totals_before_render(output, stats, total) ==
    [token_count |-> SumSeq([i \in 1..Len(stats) |-> stats[i].token_count]), total_chars |-> total]

\* pack.rs 186-188: the totals of the result are counted on the rendered
\* output; count_tokens never fails, so unwrap_or's default is not used
totals(output, stats, total) ==
    [token_count |-> count_tokens(output), total_chars |-> chars_count(output)]

\* pack.rs 109-216.  order is the order in which the HashMap yields its
\* keys, answer what get_file_change_counts returns when it is asked.
PackFinish(order, answer) ==
    /\ caller = "pack" /\ pc = "returned" /\ walk_result = "Ok"
    /\ answer.asked = config.sort_by_changes
    /\ LET sorted_paths == sort_paths(order, config, answer)
           sorted_stats == sort_stats(file_stats)
           output == format(files, sorted_paths)
           t == totals(output, file_stats, total_chars)
       IN /\ file_stats' = sorted_stats
          /\ result' = [tag |-> "Ok",
                        output |-> output,
                        token_count |-> t.token_count,
                        total_files |-> Cardinality(DOMAIN files),
                        total_chars |-> t.total_chars,
                        top_files |-> top_files_of(sorted_stats, config),
                        has_secrets |-> suspicious_files # <<>>,
                        suspicious_files |-> suspicious_files,
                        sorted_paths |-> sorted_paths]
    /\ git' = answer
    /\ pc' = "done"
    /\ UNCHANGED <<root_idx, todo, walk_result>>
    /\ UNCHANGED <<caller, config, paths, run, first, disk, task, visited>>
    /\ UNCHANGED <<files, suspicious_files, total_chars>>
    /\ UNCHANGED fnVars /\ UNCHANGED mcpVars

\* pack.rs 107: the ? on the walker's result
PackAbort ==
    /\ caller = "pack" /\ pc = "returned" /\ walk_result = "Err"
    /\ result' = Err
    /\ pc' = "done"
    /\ UNCHANGED <<root_idx, todo, walk_result>>
    /\ UNCHANGED <<caller, config, paths, run, first, disk, task, visited, git>>
    /\ UNCHANGED packVars /\ UNCHANGED fnVars /\ UNCHANGED mcpVars

\* pack is run once more, with the same configuration, over the same roots
\* and the same files on disk
PackAgain ==
    /\ caller = "pack" /\ pc = "done" /\ run = 1 /\ result.tag = "Ok"
    /\ first' = [tag |-> "Ok", files |-> files, file_stats |-> file_stats,
                 top_files |-> result.top_files]
    /\ run' = 2
    /\ pc' = "root"
    /\ root_idx' = 1
    /\ todo' = {}
    /\ visited' = EmptyBag
    /\ walk_result' = "none"
    /\ files' = <<>>
    /\ suspicious_files' = <<>>
    /\ total_chars' = 0
    /\ file_stats' = <<>>
    /\ git' = NotAsked
    /\ result' = None
    /\ UNCHANGED <<caller, config, paths, disk, task>>
    /\ UNCHANGED fnVars /\ UNCHANGED mcpVars

----------------------------------------------------------------------------
(* A call of read_file alone *)

AnyFiles ==
    [meta_err : BOOLEAN, len : 0..MaxLen, ext : Extensions, read_err : BOOLEAN,
     bin_content : BOOLEAN, utf8_ok : BOOLEAN, text : {<<"sig">>}, parse_ok : {TRUE}]

InitRead ==
    /\ Idle("fn") /\ config = DefaultConfig /\ paths = <<>> /\ disk = <<>>
    /\ fn_in \in [op : {"read_file"}, file : AnyFiles, max_file_size : 0..MaxLen]

CallReadFile ==
    /\ caller = "fn" /\ fn_in.op = "read_file" /\ fn_out = None
    /\ fn_out' = read_file(fn_in.file, fn_in.max_file_size)
    /\ UNCHANGED <<caller, config, paths, run, first, disk, task, visited, git, result, fn_in>>
    /\ UNCHANGED mcpVars
    /\ UNCHANGED walkerVars /\ UNCHANGED packVars

----------------------------------------------------------------------------
(* Texts as sequences of characters: the functions of process.rs that      *)
(* work on the characters of a text, as the regex crate applies their      *)
(* patterns (leftmost match first, matches do not overlap, the search      *)
(* goes on where the last match ended).                                    *)

NL == "\n"

\* the tail of s from position i on
From(s, i) == SubSeq(s, i, Len(s))

StartsWith(s, p) == Len(s) >= Len(p) /\ SubSeq(s, 1, Len(p)) = p

\* the least position from i on where p begins in s, or 0
Find(s, p, i) ==
    LET at == {k \in i..(Len(s) - Len(p) + 1) : SubSeq(s, k, k + Len(p) - 1) = p}
    IN IF at = {} THEN 0 ELSE CHOOSE k \in at : \A l \in at : k <= l

\* the end of the line that begins at s[1]: the position of its "\n", or
\* Len(s) + 1
LineEnd(s) ==
    LET k == Find(s, <<NL>>, 1) IN IF k = 0 THEN Len(s) + 1 ELSE k

no_newlines(s) == <<>>

\* text.matches('\n').count() newlines
Newlines(s) == SelectSeq(s, LAMBDA c : c = NL)

\* BLOCK.replace_all: (?s)/\*.*?\*/ is "/*", the fewest characters of any
\* kind, "*/"; a match is replaced by the newlines it holds
RECURSIVE BLOCK_replace_all(_)
BLOCK_replace_all(s) ==
    IF s = <<>> THEN <<>>
    ELSE LET close == IF StartsWith(s, <<"/", "*">>) THEN Find(s, <<"*", "/">>, 3) ELSE 0
         IN IF close # 0
            THEN Newlines(SubSeq(s, 1, close + 1)) \o BLOCK_replace_all(From(s, close + 2))
            ELSE <<Head(s)>> \o BLOCK_replace_all(Tail(s))

\* LINE.replace_all: (?m)//.*?$ is "//" and the rest of the line, the
\* newline not included; a match is replaced by nothing
RECURSIVE LINE_replace_all(_)
LINE_replace_all(s) ==
    IF s = <<>> THEN <<>>
    ELSE IF StartsWith(s, <<"/", "/">>) THEN LINE_replace_all(From(s, LineEnd(s)))
    ELSE <<Head(s)>> \o LINE_replace_all(Tail(s))

\* process::strip_c_like_comments on the characters
strip_c_like_comments_chars(content) == LINE_replace_all(BLOCK_replace_all(content))

IsSpace(c) == c \in {" ", NL, "\r"}

\* the length of the match of \s*#.*$ that begins at s[1], or 0: the white
\* space, newlines included, then "#" and the rest of that line
HashMatch(s) ==
    LET ns == {k \in 1..Len(s) : ~IsSpace(s[k])}
        k == IF ns = {} THEN 0 ELSE CHOOSE n \in ns : \A l \in ns : n <= l
    IN IF k # 0 /\ s[k] = "#" THEN k - 1 + LineEnd(From(s, k)) - 1 ELSE 0

\* HASH.replace_all: (?m)^\s*#.*$ begins at the start of a line only;
\* bol says that s[1] is at the start of a line
RECURSIVE HASH_replace_all(_, _)
HASH_replace_all(s, bol) ==
    IF s = <<>> THEN <<>>
    ELSE IF bol /\ HashMatch(s) # 0 THEN HASH_replace_all(From(s, HashMatch(s) + 1), FALSE)
    ELSE <<Head(s)>> \o HASH_replace_all(Tail(s), Head(s) = NL)

\* process::strip_hash_comments on the characters
strip_hash_comments_chars(content) == HASH_replace_all(content, TRUE)

\* str::lines: the text is cut after every "\n"; a line loses its "\n" and a
\* "\r" right before it; no line follows the last "\n"
RECURSIVE lines(_)
lines(s) ==
    IF s = <<>> THEN <<>>
    ELSE LET e == LineEnd(s)
             raw == SubSeq(s, 1, e - 1)
             line == IF e <= Len(s) /\ raw # <<>> /\ raw[Len(raw)] = "\r"
                     THEN SubSeq(raw, 1, Len(raw) - 1) ELSE raw
         IN <<line>> \o lines(From(s, e + 1))

\* str::trim_end, str::trim_start and str::trim on the characters
RECURSIVE trim_end_chars(_)
trim_end_chars(s) ==
    IF s # <<>> /\ IsSpace(s[Len(s)]) THEN trim_end_chars(SubSeq(s, 1, Len(s) - 1)) ELSE s
RECURSIVE trim_start_chars(_)
trim_start_chars(s) ==
    IF s # <<>> /\ IsSpace(Head(s)) THEN trim_start_chars(Tail(s)) ELSE s
trim_chars(s) == trim_start_chars(trim_end_chars(s))

\* [&str]::join
RECURSIVE join(_, _)
join(ls, sep) ==
    IF ls = <<>> THEN <<>>
    ELSE IF Len(ls) = 1 THEN Head(ls)
    ELSE Head(ls) \o sep \o join(Tail(ls), sep)

\* the elements of a sequence mapped by f
Map(s, f(_)) == [i \in 1..Len(s) |-> f(s[i])]

remove_empty_lines_keep_end(content) ==
    join(SelectSeq(lines(content), LAMBDA line : trim_chars(line) # <<>>), <<NL>>)

\* process::remove_empty_lines on the characters
remove_empty_lines_chars(content) ==
    join(Map(SelectSeq(lines(content), LAMBDA line : trim_chars(line) # <<>>), trim_end_chars),
         <<NL>>)

DATA_URI_MIN_LEN == 40
STANDALONE_MIN_LEN == 60
TRUNCATION_LEN == 32

\* the character classes of the patterns
Digits == {"0", "1", "2", "3", "4", "5", "6", "7", "8", "9"}
Upper == {"A", "B", "C", "D", "E", "F", "G", "H", "I", "J", "K", "L", "M",
          "N", "O", "P", "Q", "R", "S", "T", "U", "V", "W", "X", "Y", "Z"}
Lower == {"a", "b", "c", "d", "e", "f", "g", "h", "i", "j", "k", "l", "m",
          "n", "o", "p", "q", "r", "s", "t", "u", "v", "w", "x", "y", "z"}
AlphaNum == Upper \cup Lower \cup Digits
\* [A-Za-z0-9/\-\+], [A-Za-z0-9\-=], [A-Za-z0-9+/=] and [A-Za-z0-9+/]
MimeChars == AlphaNum \cup {"/", "-", "+"}
ParamChars == AlphaNum \cup {"-", "="}
PayloadChars == AlphaNum \cup {"+", "/", "="}
Base64Chars == AlphaNum \cup {"+", "/"}

\* the length of the longest prefix of s made of characters of S
RECURSIVE RunLen(_, _)
RunLen(s, S) == IF s # <<>> /\ Head(s) \in S THEN 1 + RunLen(Tail(s), S) ELSE 0

Min(a, b) == IF a <= b THEN a ELSE b

\* &data[..min(TRUNCATION_LEN, data.len())] and the "..." after it
preview(data) == SubSeq(data, 1, Min(TRUNCATION_LEN, Len(data))) \o <<".", ".", ".">>

DataPrefix == <<"d", "a", "t", "a", ":">>
Base64Mark == <<";", "b", "a", "s", "e", "6", "4", ",">>

\* (;[A-Za-z0-9\-=]+)*;base64, at the head of s: whether it matches, its
\* length and the last repetition of the group, which is what caps.get(2)
\* holds (nothing when the group did not repeat)
RECURSIVE ParamsMatch(_, _, _)
ParamsMatch(s, last, n) ==
    LET rlen == RunLen(Tail(s), ParamChars)
    IN IF StartsWith(s, Base64Mark) THEN [ok |-> TRUE, params |-> last, len |-> n + Len(Base64Mark)]
       ELSE IF s # <<>> /\ Head(s) = ";" /\ rlen >= 1
            THEN ParamsMatch(From(s, rlen + 2), SubSeq(s, 1, rlen + 1), n + rlen + 1)
       ELSE [ok |-> FALSE, params |-> <<>>, len |-> 0]

payload_longer(n) == n > DATA_URI_MIN_LEN

\* {DATA_URI_MIN_LEN,}
payload_long_enough(n) == n >= DATA_URI_MIN_LEN

\* the match of DATA_URI_RE that begins at s[1]
DataUriMatch(s) ==
    LET no == [ok |-> FALSE, mime |-> <<>>, params |-> <<>>, data |-> <<>>, len |-> 0]
        mlen == RunLen(From(s, Len(DataPrefix) + 1), MimeChars)
        p == ParamsMatch(From(s, Len(DataPrefix) + mlen + 1), <<>>, 0)
        at == Len(DataPrefix) + mlen + p.len
        dlen == RunLen(From(s, at + 1), PayloadChars)
    IN IF StartsWith(s, DataPrefix) /\ mlen >= 1 /\ p.ok /\ payload_long_enough(dlen)
       THEN [ok |-> TRUE, mime |-> SubSeq(s, Len(DataPrefix) + 1, Len(DataPrefix) + mlen),
             params |-> p.params, data |-> SubSeq(s, at + 1, at + dlen), len |-> at + dlen]
       ELSE no

\* DATA_URI_RE.replace_all with its closure
RECURSIVE DATA_URI_RE_replace_all(_)
DATA_URI_RE_replace_all(s) ==
    IF s = <<>> THEN <<>>
    ELSE LET caps == DataUriMatch(s)
         IN IF caps.ok
            THEN DataPrefix \o caps.mime \o caps.params \o <<";", "b", "a", "s", "e", "6", "4", ",">>
                 \o preview(caps.data) \o DATA_URI_RE_replace_all(From(s, caps.len + 1))
            ELSE <<Head(s)>> \o DATA_URI_RE_replace_all(Tail(s))

\* process::is_likely_base64
is_likely_base64(data) ==
    LET body == RunLen(data, Base64Chars)
        unique_chars == Range(data)
        has_numbers == \E i \in 1..Len(data) : data[i] \in Digits
        has_upper == \E i \in 1..Len(data) : data[i] \in Upper
        has_lower == \E i \in 1..Len(data) : data[i] \in Lower
        has_special == \E i \in 1..Len(data) : data[i] \in {"+", "/"}
        categories == Cardinality({c \in {<<1, has_numbers>>, <<2, has_upper>>,
                                          <<3, has_lower>>, <<4, has_special>>} : c[2]})
    IN IF ~(body >= 1 /\ body + RunLen(From(data, body + 1), {"="}) = Len(data)) THEN FALSE
       ELSE IF Cardinality(unique_chars) < 10 THEN FALSE
       ELSE categories >= 3

\* STANDALONE_RE.replace_all with its closure: [A-Za-z0-9+/]{60,}={0,2}
RECURSIVE STANDALONE_RE_replace_all(_)
STANDALONE_RE_replace_all(s) ==
    IF s = <<>> THEN <<>>
    ELSE LET rlen == RunLen(s, Base64Chars)
             len == rlen + Min(2, RunLen(From(s, rlen + 1), {"="}))
             data == SubSeq(s, 1, len)
         IN IF rlen >= STANDALONE_MIN_LEN
            THEN (IF is_likely_base64(data) THEN preview(data) ELSE data)
                 \o STANDALONE_RE_replace_all(From(s, len + 1))
            ELSE <<Head(s)>> \o STANDALONE_RE_replace_all(Tail(s))

\* process::truncate_base64_content on the characters
truncate_base64_content_chars(content) ==
    STANDALONE_RE_replace_all(DATA_URI_RE_replace_all(content))

KEY_MIN_LEN == 16
KEY_MAX_LEN == 64

\* (?i): a letter matches in either case
to_lower(c) ==
    LET fold == ("A" :> "a") @@ ("B" :> "b") @@ ("C" :> "c") @@ ("D" :> "d") @@ ("E" :> "e")
             @@ ("F" :> "f") @@ ("G" :> "g") @@ ("H" :> "h") @@ ("I" :> "i") @@ ("J" :> "j")
             @@ ("K" :> "k") @@ ("L" :> "l") @@ ("M" :> "m") @@ ("N" :> "n") @@ ("O" :> "o")
             @@ ("P" :> "p") @@ ("Q" :> "q") @@ ("R" :> "r") @@ ("S" :> "s") @@ ("T" :> "t")
             @@ ("U" :> "u") @@ ("V" :> "v") @@ ("W" :> "w") @@ ("X" :> "x") @@ ("Y" :> "y")
             @@ ("Z" :> "z")
    IN IF c \in Upper THEN fold[c] ELSE c

\* the "Generic API Key" pattern of SECRET_PATTERNS:
\* (?i)(api_key|apikey|secret|token)[\s':=]+(['"][a-zA-Z0-9_\-]{16,64}['"])
GenericKeywords ==
    {<<"a", "p", "i", "_", "k", "e", "y">>, <<"a", "p", "i", "k", "e", "y">>,
     <<"s", "e", "c", "r", "e", "t">>, <<"t", "o", "k", "e", "n">>}
GenericMatchAt(s) ==
    \E kw \in GenericKeywords :
        /\ Len(s) >= Len(kw)
        /\ Map(SubSeq(s, 1, Len(kw)), to_lower) = kw
        /\ LET r == From(s, Len(kw) + 1)
               seps == RunLen(r, {" ", "\t", NL, "\r", "'", ":", "="})
           IN \E k \in 1..seps :
                  /\ k + 1 <= Len(r) /\ r[k + 1] \in {"'", "\""}
                  /\ LET n == RunLen(From(r, k + 2), AlphaNum \cup {"_", "-"})
                     IN \E m \in KEY_MIN_LEN..Min(n, KEY_MAX_LEN) :
                            k + 2 + m <= Len(r) /\ r[k + 2 + m] \in {"'", "\""}
generic_api_key_is_match(content) ==
    \E i \in 1..Len(content) : GenericMatchAt(From(content, i))

\* security::scan_content on the characters, for the last pattern of
\* SECRET_PATTERNS: the names pushed to found_secrets
scan_content_chars(content) ==
    IF generic_api_key_is_match(content) THEN <<"Generic API Key">> ELSE <<>>

----------------------------------------------------------------------------
(* The merging of chunks in compress_content.  A chunk is a record          *)
(* [content, start_row, end_row]; its content is the rows it was cut from.  *)

\* compress/mod.rs 48-69: the chunk of a capture whose node spans the rows
\* start_row..end_row, in a text of nlines lines; none for a capture that
\* begins past the last line
capture_chunk(start_row, end_row, nlines) ==
    IF start_row >= nlines THEN <<>>
    ELSE LET actual_end_row == IF end_row < nlines THEN end_row ELSE nlines - 1
         IN IF start_row > actual_end_row THEN <<>>
            ELSE <<[content |-> [i \in 1..(actual_end_row - start_row + 1) |-> start_row + i - 1],
                    start_row |-> start_row,
                    end_row |-> actual_end_row]>>

\* compress/mod.rs 39-72: captured_chunks, in the order of the captures
RECURSIVE captured_chunks(_, _)
captured_chunks(captures, nlines) ==
    IF captures = <<>> THEN <<>>
    ELSE capture_chunk(Head(captures)[1], Head(captures)[2], nlines)
         \o captured_chunks(Tail(captures), nlines)

\* compress/mod.rs 75-78: the chunks of every start row, in the order of
\* the captures
chunks_by_start_row(captured) ==
    [r \in {captured[i].start_row : i \in 1..Len(captured)} |->
        SelectSeq(captured, LAMBDA c : c.start_row = r)]

\* compress/mod.rs 80-88: the first chunk of every start row after the
\* sort by length, in the order the HashMap yields the rows, then sorted by
\* start row
filter_chunks(captured, text_lines, order) ==
    LET by_row == chunks_by_start_row(captured)
        best_chunk(r) == Head(SortBy(by_row[r], [by |-> "len", lines |-> text_lines]))
    IN SortBy([i \in 1..Len(order) |-> best_chunk(order[i])], [by |-> "start"])

adjacent_or_before(current_end, start_row) == current_end + 1 >= start_row

\* compress/mod.rs 102: current_end + 1 == next_chunk.start_row
adjacent(current_end, start_row) == current_end + 1 = start_row

\* compress/mod.rs 100-121: the loop over filtered_chunks[1..] and the push
\* of the last run
RECURSIVE merge_loop(_, _, _, _)
merge_loop(filtered_chunks, i, current, merged_chunks) ==
    IF i > Len(filtered_chunks) THEN Append(merged_chunks, current)
    ELSE LET next_chunk == filtered_chunks[i]
         IN IF adjacent(current.end_row, next_chunk.start_row)
            THEN merge_loop(filtered_chunks, i + 1,
                            [content |-> current.content \o next_chunk.content,
                             start_row |-> current.start_row,
                             end_row |-> next_chunk.end_row],
                            merged_chunks)
            ELSE merge_loop(filtered_chunks, i + 1, next_chunk, Append(merged_chunks, current))

\* compress/mod.rs 90-121: merged_chunks; none for no chunk, where the
\* function returns the empty text
merge_chunks(filtered_chunks) ==
    IF filtered_chunks = <<>> THEN <<>>
    ELSE merge_loop(filtered_chunks, 2, filtered_chunks[1], <<>>)

----------------------------------------------------------------------------
(* The token tree.  A node is a record [token_sum, files, children]: files  *)
(* is the list of its [name, tokens] entries, children maps a name to a     *)
(* node.                                                                   *)

\* TokenTreeNode::default
TokenTreeNode == [token_sum |-> 0, files |-> <<>>, children |-> <<>>]

\* token_tree.rs 46-57: the walk down the parts but the last, creating the
\* children that are missing, and the push of the file entry
RECURSIVE insert_entry(_, _, _)
insert_entry(node, parts, tokens) ==
    IF Len(parts) = 1
    THEN [node EXCEPT !.files = Append(@, [name |-> parts[1], tokens |-> tokens])]
    ELSE LET part == Head(parts)
             child == IF part \in DOMAIN node.children THEN node.children[part] ELSE TokenTreeNode
         IN [node EXCEPT !.children = Put(@, part, insert_entry(child, Tail(parts), tokens))]

\* token_tree.rs 31-58: the loop over the entries; an entry whose path has
\* no part is passed over
RECURSIVE insert_entries(_, _)
insert_entries(root, entries) ==
    IF entries = <<>> THEN root
    ELSE IF Head(entries).path = <<>> THEN insert_entries(root, Tail(entries))
    ELSE insert_entries(insert_entry(root, Head(entries).path, Head(entries).tokens), Tail(entries))

\* Iterator::sum over the values f[x], x in S
RECURSIVE SumOver(_, _)
SumOver(f, S) ==
    IF S = {} THEN 0 ELSE LET x == CHOOSE y \in S : TRUE IN f[x] + SumOver(f, S \ {x})

file_tokens_of(node) == SumSeq([i \in 1..Len(node.files) |-> node.files[i].tokens])

RECURSIVE calculate_sums_files_only(_)
calculate_sums_files_only(node) ==
    LET children == [c \in DOMAIN node.children |-> calculate_sums_files_only(node.children[c])]
    IN [node EXCEPT !.children = children, !.token_sum = file_tokens_of(node)]

\* token_tree::calculate_sums: the node with the sums set in it and below it
RECURSIVE calculate_sums(_)
calculate_sums(node) ==
    LET children == [c \in DOMAIN node.children |-> calculate_sums(node.children[c])]
        child_tokens == SumOver([c \in DOMAIN children |-> children[c].token_sum], DOMAIN children)
    IN [node EXCEPT !.children = children, !.token_sum = file_tokens_of(node) + child_tokens]

\* token_tree::build_token_tree
build_token_tree(entries) == calculate_sums(insert_entries(TokenTreeNode, entries))

----------------------------------------------------------------------------
(* The JSON-RPC server.  An input line is a record with a kind:            *)
(*   "blank"     nothing but white space                                   *)
(*   "garbage"   text that does not deserialize to a JsonRpcRequest        *)
(*   "bad_utf8"  bytes that are not UTF-8: BufRead::lines yields Err       *)
(*   "request"   a request [method, params, id]                            *)
(* The params of a request are known by what handle_tools_call finds in    *)
(* them: "none" (no params), "no_name", "other_tool", "no_arguments",      *)
(* "no_directory", and "dir_ok" / "dir_fail", a call of pack_codebase      *)
(* on a directory for which pack returns Ok / Err.                         *)

\* JSON values: null, a number, and the objects the handlers answer with
Null == [tag |-> "null"]
Number(n) == [tag |-> "number", n |-> n]
Object(name) == [tag |-> "object", name |-> name]

Ok(value) == [ok |-> TRUE, value |-> value, error |-> Null]
JsonRpcError(code, message) ==
    [ok |-> FALSE, value |-> Null, error |-> [code |-> code, message |-> message]]

\* mcp::handle_tools_call
handle_tools_call(params) ==
    IF params = "none" THEN JsonRpcError(-32602, "Invalid params")
    ELSE IF params = "no_name" THEN JsonRpcError(-32602, "Missing tool name")
    ELSE IF params = "other_tool" THEN JsonRpcError(-32601, "Tool not found")
    ELSE IF params = "no_arguments" THEN JsonRpcError(-32602, "Missing arguments")
    ELSE IF params = "no_directory" THEN JsonRpcError(-32602, "Missing directory argument")
    ELSE IF params = "dir_fail" THEN JsonRpcError(-32603, "Packing failed")
    ELSE Ok(Object("content"))

\* mcp::handle_request
handle_request(req) ==
    LET res == CASE req.method = "initialize" -> Ok(Object("serverInfo"))
                 [] req.method = "tools/list" -> Ok(Object("tools"))
                 [] req.method = "tools/call" -> handle_tools_call(req.params)
                 [] OTHER -> JsonRpcError(-32601, "Method not found")
    IN [jsonrpc |-> "2.0", result |-> res.value, error |-> res.error, id |-> req.id]

----------------------------------------------------------------------------
(* Calls of single functions.  fn_in names the function and holds its      *)
(* arguments, fn_out receives what it returns.                             *)

Call(op, out) ==
    /\ caller = "fn" /\ fn_in.op = op /\ fn_out = None
    /\ fn_out' = out
    /\ UNCHANGED <<caller, config, paths, run, first, disk, task, visited, git, result, fn_in>>
    /\ UNCHANGED mcpVars
    /\ UNCHANGED walkerVars /\ UNCHANGED packVars

\* process_content on a text of at most MaxLines lines of a file with or
\* without C-like comments and a grammar, under every setting of the toggles
ProcessLines == {"sig", "body", "cmt", "blank", "b64"}
ProcessInputs ==
    [op : {"process_content"},
     content : SeqsUpTo(ProcessLines, MaxLines),
     file : [ext : {"rs", "txt"}, parse_ok : BOOLEAN],
     cfg : [truncate_base64 : BOOLEAN, remove_comments : BOOLEAN,
            remove_empty_lines : BOOLEAN, compress : BOOLEAN]]
CallProcessContent ==
    Call("process_content", process_content(fn_in.content, fn_in.file, fn_in.cfg))

\* the comment strippers on the characters of a text: texts of slashes,
\* stars and newlines, and texts of hashes, blanks, letters and newlines
CLikeInputs == [op : {"strip_c_like_comments"}, text : SeqsUpTo({"/", "*", NL}, MaxCLen)]
HashInputs == [op : {"strip_hash_comments"}, text : SeqsUpTo({"#", " ", "x", NL}, MaxHLen)]
Returned(text) == [ok |-> TRUE, text |-> text]
CallStripCLike ==
    Call("strip_c_like_comments", Returned(strip_c_like_comments_chars(fn_in.text)))
CallStripHash ==
    Call("strip_hash_comments", Returned(strip_hash_comments_chars(fn_in.text)))

\* remove_empty_lines on texts of letters, blanks, carriage returns and
\* newlines
EmptyLineInputs == [op : {"remove_empty_lines"}, text : SeqsUpTo({"x", " ", "\r", NL}, MaxHLen)]
CallRemoveEmptyLines ==
    Call("remove_empty_lines", Returned(remove_empty_lines_chars(fn_in.text)))

\* the first n characters of seed repeated over and over
Repeat(seed, n) == [i \in 1..n |-> seed[((i - 1) % Len(seed)) + 1]]

\* truncate_base64_content on a data-URI literal between a prefix and a
\* suffix: a mime type, no, one or two parameters and a payload of
\* DATA_URI_MIN_LEN - MaxOff to STANDALONE_MIN_LEN + MaxOff base64 characters
Payloads ==
    {Repeat(seed, n) : seed \in {<<"A">>, <<"Q", "U", "J", "+", "R", "0", "h", "/", "k", "t", "9", "=">>},
                       n \in (DATA_URI_MIN_LEN - MaxOff)..(STANDALONE_MIN_LEN + MaxOff)}
DataUriInputs ==
    [op : {"truncate_base64_content"},
     prefix : {<<>>, <<"x", " ", "\"">>},
     mime : {<<"i", "/", "p">>},
     params : {<<>>, <<";", "a", "=", "1">>, <<";", "a", "=", "1", ";", "b", "=", "2">>},
     payload : Payloads,
     suffix : {<<>>, <<"\"", ";">>}]
DataUriText(in) == in.prefix \o DataPrefix \o in.mime \o in.params \o Base64Mark \o in.payload \o in.suffix
CallTruncateBase64 ==
    Call("truncate_base64_content", Returned(truncate_base64_content_chars(DataUriText(fn_in))))

\* scan_content on an assignment of a quoted or unquoted candidate string to
\* a name: the candidates have one, two or twelve distinct characters and
\* lengths around KEY_MIN_LEN and KEY_MAX_LEN
KeyLengths ==
    (KEY_MIN_LEN - MaxOff)..(KEY_MIN_LEN + MaxOff) \cup (KEY_MAX_LEN - MaxOff)..(KEY_MAX_LEN + MaxOff)
GenericInputs ==
    [op : {"scan_content"},
     name : {<<"t", "o", "k", "e", "n">>, <<"S", "e", "c", "r", "e", "t">>, <<"t", "o", "k", "i", "n">>},
     sep : {<<"=">>, <<" ", "=", " ">>, <<":", " ">>, <<>>},
     quote : {<<"\"">>, <<"'">>, <<>>},
     candidate : {Repeat(seed, n) :
                     seed \in {<<"a">>, <<"a", "b">>,
                               <<"a", "B", "3", "_", "d", "E", "6", "-", "g", "H", "9", "j">>},
                     n \in KeyLengths}]
GenericText(in) == in.name \o in.sep \o in.quote \o in.candidate \o in.quote \o <<";">>
CallScanContent ==
    Call("scan_content", [ok |-> TRUE, secrets |-> scan_content_chars(GenericText(fn_in))])

\* the merge on what lines 74-88 leave: at most MaxChunks chunks over the
\* rows 0..MaxRow, one for a start row, in the order of their start rows
Chunk(s, e) == [content |-> [i \in 1..(e - s + 1) |-> s + i - 1], start_row |-> s, end_row |-> e]
RECURSIVE RowsFrom(_, _)
RowsFrom(lo, n) ==
    IF n = 0 \/ lo > MaxRow THEN {<<>>}
    ELSE RowsFrom(lo + 1, n) \cup
         {<<<<lo, e>>>> \o rest : e \in lo..MaxRow, rest \in RowsFrom(lo + 1, n - 1)}
ChunkLists == {[i \in 1..Len(p) |-> Chunk(p[i][1], p[i][2])] : p \in RowsFrom(0, MaxChunks)}
ChunkInputs == [op : {"merge_chunks"}, chunks : ChunkLists]
CallMergeChunks ==
    Call("merge_chunks", [ok |-> TRUE, runs |-> merge_chunks(fn_in.chunks)])

\* the chunk stages of compress_content on the captures of a text of
\* MaxText lines: at most MaxChunks captures, in any order, of any rows from
\* 0 to the row past the last line; the lines are of one byte per character
\* or every other line has characters of several bytes
AsciiLine == [chars |-> 2, bytes |-> 2]
WideLine == [chars |-> 1, bytes |-> 3]
CaptureInputs ==
    [op : {"compress_chunks"},
     captures : SeqsUpTo({q \in (0..MaxText) \X (0..MaxText) : q[1] <= q[2]}, MaxChunks),
     lines : {[i \in 1..MaxText |-> AsciiLine],
              [i \in 1..MaxText |-> IF i % 2 = 1 THEN WideLine ELSE AsciiLine]}]
\* order is the order in which the HashMap yields its start rows
CallCompressChunks ==
    /\ caller = "fn" /\ fn_in.op = "compress_chunks"
    /\ LET captured == captured_chunks(fn_in.captures, Len(fn_in.lines)) IN
       \E order \in Perms(DOMAIN chunks_by_start_row(captured)) :
           Call("compress_chunks",
                [ok |-> TRUE,
                 captured |-> captured,
                 filtered |-> filter_chunks(captured, fn_in.lines, order),
                 merged |-> merge_chunks(filter_chunks(captured, fn_in.lines, order))])

\* should_skip under one written ignore pattern of at most MaxPat
\* components, on the relative path of a file at most MaxDepth deep; the
\* names are a file name with a dot and a directory name without
IgnoreInputs ==
    [op : {"should_skip"},
     pattern : [comps : SeqsUpTo({StarStar, Star, 1, DirName}, MaxPat), slash : BOOLEAN],
     relative : SeqsUpTo({1, DirName}, MaxDepth) \ {<<>>}]
CallShouldSkip ==
    /\ caller = "fn" /\ fn_in.op = "should_skip"
    /\ LET cfg == [DefaultConfig EXCEPT !.custom_patterns = {fn_in.pattern}] IN
       Call("should_skip",
            [ok |-> TRUE,
             glob |-> normalize_ignore_pattern(fn_in.pattern),
             skip |-> should_skip(cfg, fn_in.relative, D1 \o fn_in.relative)])

\* build_token_tree on at most MaxEntries entries: paths of at most MaxDepth
\* parts, the path without a part among them, with one or two tokens
TreeInputs ==
    [op : {"build_token_tree"},
     entries : SeqsUpTo([path : SeqsUpTo({1, 2}, MaxDepth), tokens : {1, 2}], MaxEntries)]
CallBuildTokenTree ==
    Call("build_token_tree", [ok |-> TRUE, tree |-> build_token_tree(fn_in.entries)])

\* the server reads at most MaxInput lines; the request in line i has the
\* id i, a notification has none
ParamKinds == {"none", "no_name", "other_tool", "no_arguments", "no_directory", "dir_ok", "dir_fail"}
LineShapes ==
    [kind : {"blank", "garbage", "bad_utf8"}]
    \cup [kind : {"request"}, method : {"initialize", "tools/list", "resources/list"},
          params : {"none"}, id : {TRUE}]
    \cup [kind : {"request"}, method : {"notifications/initialized"}, params : {"none"}, id : {FALSE}]
    \cup [kind : {"request"}, method : {"tools/call"}, params : ParamKinds, id : {TRUE}]
Line(shape, i) ==
    IF shape.kind # "request" THEN shape
    ELSE [shape EXCEPT !.id = IF shape.id THEN Number(i) ELSE Null]
ServerInputs ==
    {[op |-> "start_server", lines |-> [i \in 1..Len(shapes) |-> Line(shapes[i], i)]] :
        shapes \in SeqsUpTo(LineShapes, MaxInput)}

InitServer ==
    /\ Idle("mcp") /\ config = DefaultConfig /\ paths = <<>> /\ disk = <<>>
    /\ fn_in \in ServerInputs

\* one pass of the loop of start_server, or its end
Serve(kind) ==
    /\ caller = "mcp" /\ server = "serving"
    /\ stdin # <<>> /\ Head(stdin).kind = kind
    /\ stdin' = Tail(stdin)
    /\ UNCHANGED <<caller, config, paths, run, first, disk, task, visited, git, result>>
    /\ UNCHANGED walkerVars /\ UNCHANGED packVars /\ UNCHANGED fnVars

\* the server is started on the input
StartServer ==
    /\ caller = "mcp" /\ server = "none"
    /\ server' = "serving" /\ stdin' = fn_in.lines /\ stdout' = <<>>
    /\ UNCHANGED <<caller, config, paths, run, first, disk, task, visited, git, result>>
    /\ UNCHANGED walkerVars /\ UNCHANGED packVars /\ UNCHANGED fnVars

\* mcp/mod.rs 34: let line = line?
ReadFails == Serve("bad_utf8") /\ server' = "Err" /\ UNCHANGED stdout

\* mcp/mod.rs 35-37: a blank line is passed over
ReadBlank == Serve("blank") /\ UNCHANGED <<stdout, server>>

\* mcp/mod.rs 39-45: a line that is no request is logged and passed over
ReadUnparsable == Serve("garbage") /\ UNCHANGED <<stdout, server>>

\* mcp/mod.rs 47-51: the response to a request is written and flushed
ServeRequest ==
    /\ Serve("request")
    /\ stdout' = Append(stdout, handle_request(Head(stdin)))
    /\ UNCHANGED server

\* mcp/mod.rs 33, 54: the input is at its end and start_server returns Ok
EndOfInput ==
    /\ caller = "mcp" /\ server = "serving" /\ stdin = <<>>
    /\ server' = "Ok"
    /\ UNCHANGED <<stdin, stdout>>
    /\ UNCHANGED <<caller, config, paths, run, first, disk, task, visited, git, result>>
    /\ UNCHANGED walkerVars /\ UNCHANGED packVars /\ UNCHANGED fnVars

----------------------------------------------------------------------------
(* Specifications *)

Walker ==
    \/ WalkEmpty
    \/ WalkRootMissing
    \/ WalkRootNotDir
    \/ WalkRootEnter
    \/ \E e \in todo : WalkSkip(e)
    \/ \E e \in todo, ok \in BOOLEAN : WalkVisit(e, ok)
    \/ WalkRootDone
    \/ WalkReturnOk

Pack ==
    \/ \E e \in todo : PackVisit(e)
    \/ \E a \in DOMAIN task : PushSuspicious(a)
    \/ \E a \in DOMAIN task : AddChars(a)
    \/ \E a \in DOMAIN task : PushStats(a)
    \/ \E a \in DOMAIN task : InsertFile(a)
    \/ \E order \in Perms(DOMAIN files), answer \in GitAnswers \cup {NotAsked} : PackFinish(order, answer)
    \/ PackAbort

Next == Walker \/ Pack

\* walk called directly, or pack run once
Spec == Init /\ [][Next]_vars

\* the same, and pack run a second time
SpecTwice == Init /\ [][Next \/ PackAgain]_vars

\* read_file called on any file
SpecRead == InitRead /\ [][CallReadFile]_vars

\* one of the other functions called on any of its inputs
InitFn ==
    /\ Idle("fn") /\ config = DefaultConfig /\ paths = <<>> /\ disk = <<>>
    /\ \/ fn_in \in ProcessInputs
       \/ fn_in \in CLikeInputs
       \/ fn_in \in HashInputs
       \/ fn_in \in EmptyLineInputs
       \/ fn_in \in DataUriInputs
       \/ fn_in \in GenericInputs
       \/ fn_in \in ChunkInputs
       \/ fn_in \in TreeInputs
       \/ fn_in \in CaptureInputs
       \/ fn_in \in IgnoreInputs

NextFn ==
    \/ CallProcessContent
    \/ CallStripCLike
    \/ CallStripHash
    \/ CallRemoveEmptyLines
    \/ CallTruncateBase64
    \/ CallScanContent
    \/ CallMergeChunks
    \/ CallBuildTokenTree
    \/ CallCompressChunks
    \/ CallShouldSkip

SpecFn == InitFn /\ [][NextFn]_vars

NextServer ==
    \/ StartServer
    \/ ReadFails
    \/ ReadBlank
    \/ ReadUnparsable
    \/ ServeRequest
    \/ EndOfInput

SpecServer == InitServer /\ [][NextServer]_vars

\* pack run once, its callbacks taking and dropping the locks step by step
InitLocks ==
    /\ Idle("pack") /\ fn_in = None
    /\ \E i \in DirInputs \cup RootInputs : config = i.config /\ paths = i.paths /\ disk = i.disk

NextLocks ==
    \/ WalkEmpty
    \/ WalkRootMissing
    \/ WalkRootNotDir
    \/ WalkRootEnter
    \/ \E e \in todo : WalkSkip(e)
    \/ WalkRootDone
    \/ WalkReturnOk
    \/ \E e \in todo : PackVisit(e)
    \/ \E a \in DOMAIN task, at \in {"susp", "push", "insert"} : Lock(a, at)
    \/ \E a \in DOMAIN task : PushSuspiciousLocked(a)
    \/ \E a \in DOMAIN task : AddChars(a)
    \/ \E a \in DOMAIN task : PushStatsLocked(a)
    \/ \E a \in DOMAIN task : InsertFileLocked(a)
    \/ \E order \in Perms(DOMAIN files), answer \in GitAnswers \cup {NotAsked} : PackFinish(order, answer)
    \/ PackAbort

SpecLocks == InitLocks /\ [][NextLocks]_vars

----------------------------------------------------------------------------
(* Properties *)

\* the candidates: the entries visit was invoked for
Candidates == BagToSet(visited)
\* what reading a candidate gives, and what the callback does with it
ReadOf(v) == read_file(disk[v.abs], config.max_file_size)
HasSecret(v) ==
    ReadOf(v).tag = "Some" /\ \E i \in 1..Len(ReadOf(v).content) : ReadOf(v).content[i] \in {"key", "cmtkey", "b64key"}
Flagged(v) == config.enable_security_check /\ HasSecret(v)
Kept(v) == ReadOf(v).tag = "Some" /\ ~Flagged(v)
StatPaths == [i \in 1..Len(file_stats) |-> file_stats[i].path]
StatChars == [i \in 1..Len(file_stats) |-> file_stats[i].char_count]
StatTokens == [i \in 1..Len(file_stats) |-> file_stats[i].token_count]
Occurrences(s, x) == Cardinality({i \in 1..Len(s) : s[i] = x})
RelPaths == {v.rel : v \in Candidates}
\* the walk of pack has returned
WalkOver == caller = "pack" /\ pc \in {"returned", "done"}
PackOk == caller = "pack" /\ pc = "done" /\ result.tag = "Ok"
BadRoot(r) == r \in {NotDir, Missing}
BadRoots == {i \in 1..Len(paths) : BadRoot(paths[i])}

\* C1: with the security check on, once the walk of pack is over, the
\* relative path of every candidate whose content holds a secret is in
\* suspicious_files, is no key of the content map and has no FileStats
\* record, and the character total is that of the FileStats records
C1_SecretsExcluded ==
    WalkOver /\ config.enable_security_check =>
        /\ \A v \in Candidates : HasSecret(v) =>
              /\ v.rel \in Range(suspicious_files)
              /\ v.rel \notin DOMAIN files
              /\ v.rel \notin Range(StatPaths)
        /\ total_chars = SumSeq(StatChars)

\* C2: the second run of pack over the same tree with the same
\* configuration ends with the content map, the FileStats order and the
\* top_files list of the first run
C2_RunsAgree ==
    run = 2 /\ PackOk =>
        /\ files = first.files
        /\ file_stats = first.file_stats
        /\ result.top_files = first.top_files

\* C3: sorted_paths lists the keys of the content map once each; it is in
\* ascending path order when sort_by_changes is off or the change counts
\* could not be obtained, and in ascending order of change count (0 for a
\* path without one), ties in path order, otherwise; a failure to obtain
\* the counts does not fail the run
C3_SortedPaths ==
    /\ caller = "pack" /\ pc = "done" /\ git.asked => result.tag = "Ok"
    /\ PackOk =>
        LET sp == result.sorted_paths
            cnt(q) == IF q \in DOMAIN git.counts THEN git.counts[q] ELSE 0
        IN /\ Len(sp) = Cardinality(DOMAIN files)
           /\ Range(sp) = DOMAIN files
           /\ git.asked = config.sort_by_changes
           /\ \A i, j \in 1..Len(sp) : i < j =>
                 IF config.sort_by_changes /\ git.ok
                 THEN cnt(sp[i]) < cnt(sp[j]) \/ (cnt(sp[i]) = cnt(sp[j]) /\ PathLess(sp[i], sp[j]))
                 ELSE PathLess(sp[i], sp[j])
C3_Witness ==
    /\ PackOk /\ config.sort_by_changes /\ git.ok
    /\ Len(result.sorted_paths) = 2
    /\ DOMAIN git.counts = {}
    /\ Len(file_stats) = 2 /\ PathLess(file_stats[2].path, file_stats[1].path)

\* C4: once the walk of pack has returned, the stats list holds one record
\* per candidate that was read and not flagged, the suspicious list one
\* entry per flagged candidate, and the character total is the sum of
\* char_count over the stats list
C4_NoLostUpdate ==
    WalkOver =>
        /\ \A r \in RelPaths \cup Range(StatPaths) \cup Range(suspicious_files) :
              /\ Occurrences(StatPaths, r) = Cardinality({v \in Candidates : v.rel = r /\ Kept(v)})
              /\ Occurrences(suspicious_files, r) = Cardinality({v \in Candidates : v.rel = r /\ Flagged(v)})
        /\ total_chars = SumSeq(StatChars)
C4_Witness ==
    /\ WalkOver /\ walk_result = "Ok"
    /\ Len(file_stats) >= 2
    /\ suspicious_files # <<>>

\* C5: visit is never invoked for a file whose relative path matches a
\* custom ignore pattern or, when the default patterns are enabled, a
\* default ignore pattern, whatever the include patterns and stdin paths
C5_IgnoreWins ==
    \A v \in Candidates :
        /\ \A p \in config.custom_patterns : ~GlobMatch(normalize_ignore_pattern(p), v.rel)
        /\ config.use_default_patterns =>
              \A p \in DEFAULT_IGNORE_PATTERNS : ~GlobMatch(normalize_ignore_pattern(p), v.rel)
\* a walk is over in which a file named by an include pattern and given as
\* a stdin path matched a custom ignore pattern, and another file was visited
C5_Witness ==
    /\ caller = "walk" /\ pc = "returned" /\ walk_result = "Ok"
    /\ paths = <<D1>>
    /\ <<1>> \in config.include /\ D1 \o <<1>> \in config.stdin_file_paths
    /\ config.custom_patterns = {[comps |-> <<1>>, slash |-> FALSE]}
    /\ config.output_path = <<>>
    /\ Candidates # {}

\* C6: no two candidates of one walk have the same relative path
C6_UniqueRelativePaths ==
    \A v, w \in Candidates : v.rel = w.rel => v = w

\* C7: an empty root list makes walk return an error without a visit; a
\* root that does not exist or is not a directory makes walk return an
\* error, no file of that root or of a later one is visited, and pack
\* returns an error
C7_BadRoots ==
    /\ \A v \in Candidates : \A i \in BadRoots : v.root < i
    /\ pc \in {"returned", "done"} /\ (paths = <<>> \/ BadRoots # {}) => walk_result = "Err"
    /\ paths = <<>> => visited = EmptyBag
    /\ caller = "pack" /\ pc = "done" /\ (paths = <<>> \/ BadRoots # {}) => result.tag = "Err"
C7_Witness ==
    /\ caller = "pack" /\ pc = "done"
    /\ paths = <<D1, NotDir>>
    /\ visited # EmptyBag
    /\ result.tag = "Err"

\* C8: read_file answers None exactly when the metadata is read and the
\* length is above max_file_size, or the extension is a binary one, or the
\* bytes are read and are binary or not UTF-8; it answers Err exactly when
\* the metadata cannot be read or a file that passed the size and
\* extension gates cannot be read; the bytes of a file that is too long or
\* has a binary extension are not read; otherwise it answers the text
C8_ReadFileGates ==
    fn_out # None =>
        LET f == fn_in.file
            m == fn_in.max_file_size
        IN /\ fn_out.tag = "None" <=>
                  /\ ~f.meta_err
                  /\ \/ f.len > m
                     \/ f.ext = "png"
                     \/ ~f.read_err /\ (f.bin_content \/ ~f.utf8_ok)
           /\ fn_out.tag = "Err" <=> (f.meta_err \/ (f.len <= m /\ f.ext # "png" /\ f.read_err))
           /\ (f.meta_err \/ f.len > m \/ f.ext = "png") => ~fn_out.read
           /\ fn_out.tag = "Some" => fn_out.content = f.text /\ fn_out.read
C8_Witness ==
    /\ fn_out # None
    /\ fn_in.file.len = fn_in.max_file_size /\ fn_in.max_file_size > 0
    /\ fn_out.tag = "Some"

\* C9: when compress is on and a candidate of an extension with a grammar
\* is read and kept but does not parse, pack returns an error and the
\* content map does not hold the file's text
ParseFails(v) == Kept(v) /\ disk[v.abs].ext = "rs" /\ ~disk[v.abs].parse_ok
C9_ParseFailureAborts ==
    caller = "pack" /\ pc = "done" /\ config.compress /\ (\E v \in Candidates : ParseFails(v)) =>
        /\ result.tag = "Err"
        /\ \A v \in Candidates : ParseFails(v) => v.rel \notin DOMAIN files

C11_StagesCompose ==
    caller = "fn" /\ fn_in.op = "process_content" /\ fn_out # None =>
        LET c == fn_in.cfg
            s1 == IF c.truncate_base64 THEN truncate_base64_content(fn_in.content) ELSE fn_in.content
            s2 == IF c.remove_comments THEN strip_comments(s1, fn_in.file.ext) ELSE s1
            s3 == IF c.remove_empty_lines THEN remove_empty_lines(s2) ELSE s2
            s4 == trim(s3)
            r == compress_content(s4, fn_in.file.ext, fn_in.file.parse_ok)
            s5 == IF c.compress /\ r.ok THEN r.text ELSE s4
        IN fn_out = [ok |-> TRUE, text |-> s5]
C11_Witness ==
    /\ caller = "fn" /\ fn_in.op = "process_content" /\ fn_out # None
    /\ fn_in.cfg.truncate_base64 /\ fn_in.cfg.remove_comments
    /\ fn_in.cfg.remove_empty_lines /\ fn_in.cfg.compress
    /\ fn_in.file.ext = "rs" /\ fn_in.file.parse_ok
    /\ fn_in.content = <<"cmt", "b64", "sig">>
    /\ fn_out.text = <<"sig">>

\* C12: stripping comments twice gives what stripping them once gives, for
\* strip_c_like_comments and for strip_hash_comments
C12_StripIdempotent ==
    caller = "fn" /\ fn_out # None =>
        /\ fn_in.op = "strip_c_like_comments" =>
               strip_c_like_comments_chars(fn_out.text) = fn_out.text
        /\ fn_in.op = "strip_hash_comments" =>
               strip_hash_comments_chars(fn_out.text) = fn_out.text

\* the pieces of a text between its newlines; the empty text has none
RECURSIVE Pieces(_)
Pieces(s) ==
    IF Find(s, <<NL>>, 1) = 0 THEN <<s>>
    ELSE <<SubSeq(s, 1, LineEnd(s) - 1)>> \o Pieces(From(s, LineEnd(s) + 1))
LinesOf(s) == IF s = <<>> THEN {} ELSE Range(Pieces(s))

\* C13: remove_empty_lines applied to its own output changes nothing, and
\* its output has no line that is empty after trimming and no line that
\* ends in white space
C13_EmptyLinesIdempotent ==
    caller = "fn" /\ fn_in.op = "remove_empty_lines" /\ fn_out # None =>
        /\ remove_empty_lines_chars(fn_out.text) = fn_out.text
        /\ \A line \in LinesOf(fn_out.text) :
               /\ trim_chars(line) # <<>>
               /\ ~IsSpace(line[Len(line)])
C13_Witness ==
    /\ caller = "fn" /\ fn_in.op = "remove_empty_lines"
    /\ fn_in.text = <<"x", " ", "\r", NL, NL, "x">>
    /\ fn_out # None /\ fn_out.text = <<"x", NL, "x">>

\* what follows the first ";base64," in a text
AfterMark(s) == From(s, Find(s, Base64Mark, 1) + Len(Base64Mark))

\* C14: a data-URI literal with a payload of fewer than 40 characters, 39
\* among them, comes back untouched, and one with a payload of 40 or more
\* characters comes back with the first 32 characters of the payload and
\* "..." in its place
C14_DataUriThreshold ==
    caller = "fn" /\ fn_in.op = "truncate_base64_content" /\ fn_out # None =>
        /\ Len(fn_in.payload) < 40 => fn_out.text = DataUriText(fn_in)
        /\ Len(fn_in.payload) >= 40 =>
               /\ Find(fn_out.text, Base64Mark, 1) # 0
               /\ AfterMark(fn_out.text)
                      = SubSeq(fn_in.payload, 1, 32) \o <<".", ".", ".">> \o fn_in.suffix
               /\ SubSeq(fn_out.text, 1, Len(fn_in.prefix \o DataPrefix \o fn_in.mime))
                      = fn_in.prefix \o DataPrefix \o fn_in.mime
C14_Witness ==
    /\ caller = "fn" /\ fn_in.op = "truncate_base64_content" /\ fn_out # None
    /\ Len(fn_in.payload) = 40 /\ fn_in.params = <<>> /\ fn_in.prefix # <<>>
    /\ Len(AfterMark(fn_out.text)) = 35 + Len(fn_in.suffix)
C14_WitnessBelow ==
    /\ caller = "fn" /\ fn_in.op = "truncate_base64_content" /\ fn_out # None
    /\ Len(fn_in.payload) = 39 /\ fn_out.text = DataUriText(fn_in)

\* the character classes a candidate string shows, of digit, upper case,
\* lower case and "+" or "/"
ClassesOf(s) ==
    {c \in {Digits, Upper, Lower, {"+", "/"}} : \E i \in 1..Len(s) : s[i] \in c}

\* C15: a text is flagged as "Generic API Key" only if its quoted candidate
\* string shows at least three of the four character classes and has at
\* least ten distinct characters
C15_GenericNeedsEntropy ==
    caller = "fn" /\ fn_in.op = "scan_content" /\ fn_out # None
        /\ "Generic API Key" \in Range(fn_out.secrets) =>
            /\ Cardinality(ClassesOf(fn_in.candidate)) >= 3
            /\ Cardinality(Range(fn_in.candidate)) >= 10

\* how many times visit was invoked for a candidate that satisfies P
VisitCount(P(_)) == BagCardinality([v \in {w \in Candidates : P(w)} |-> visited[v]])
\* what process_content makes of the raw text of a candidate
FinalOf(v) == process_content(ReadOf(v).content, disk[v.abs], config).text

\* C16: with the security check on, once the walk of pack is over, every
\* candidate whose raw text holds a detector match is pushed to
\* suspicious_files and leaves no FileStats record and no content, whatever
\* the transforms would make of its text: the suspicious list has one entry
\* for each visit of such a file, FileStats one record for each visit of any
\* other readable file, and every content of the map is the transformed text
\* of a file without a match
C16_ScanSeesRawText ==
    WalkOver /\ config.enable_security_check =>
        /\ \A v \in Candidates : HasSecret(v) => v.rel \in Range(suspicious_files)
        /\ Len(suspicious_files) = VisitCount(HasSecret)
        /\ Len(file_stats) = VisitCount(Kept)
        /\ \A q \in DOMAIN files :
               \E v \in Candidates : Kept(v) /\ v.rel = q /\ files[q] = FinalOf(v)
C16_Witness ==
    /\ WalkOver /\ config.enable_security_check
    /\ config.truncate_base64 /\ config.remove_comments /\ config.compress
    /\ \E v \in Candidates :
           /\ HasSecret(v) /\ ~scan_content(FinalOf(v))
           /\ "b64key" \in Range(ReadOf(v).content)
           /\ v.rel \in Range(suspicious_files) /\ v.rel \notin DOMAIN files

\* the positions of the chunks that begin a run: the first chunk, and every
\* chunk that does not start on the row after the end of its predecessor
RunStarts(chunks) ==
    {i \in 1..Len(chunks) : i = 1 \/ chunks[i - 1].end_row + 1 # chunks[i].start_row}
\* the contents of the chunks lo..hi, one after the other
RECURSIVE Concat(_, _, _)
Concat(chunks, lo, hi) ==
    IF lo > hi THEN <<>> ELSE chunks[lo].content \o Concat(chunks, lo + 1, hi)

\* C17: a chunk is joined to the current run iff its start_row is the run's
\* end_row + 1, and otherwise closes the run and begins the next: the runs
\* begin exactly at the first chunk and at every chunk that does not start
\* on the row after its predecessor's end, each reaches to the end of the
\* last chunk before the next run and holds the contents of its chunks in
\* order; the chunks of rows [0,2], [3,3], [5,6] give the runs 0-3 and 5-6
C17_MergeAdjacent ==
    caller = "fn" /\ fn_in.op = "merge_chunks" /\ fn_out # None =>
        LET chunks == fn_in.chunks
            runs == fn_out.runs
            starts == RunStarts(chunks)
            lo(k) == Kth(starts, k)
            hi(k) == IF k = Cardinality(starts) THEN Len(chunks) ELSE Kth(starts, k + 1) - 1
        IN /\ Len(runs) = Cardinality(starts)
           /\ \A k \in 1..Len(runs) :
                  /\ runs[k].start_row = chunks[lo(k)].start_row
                  /\ runs[k].end_row = chunks[hi(k)].end_row
                  /\ runs[k].content = Concat(chunks, lo(k), hi(k))
           /\ chunks = <<Chunk(0, 2), Chunk(3, 3), Chunk(5, 6)>> =>
                  runs = <<[content |-> <<0, 1, 2, 3>>, start_row |-> 0, end_row |-> 3],
                           [content |-> <<5, 6>>, start_row |-> 5, end_row |-> 6]>>
C17_Witness ==
    /\ caller = "fn" /\ fn_in.op = "merge_chunks" /\ fn_out # None
    /\ fn_in.chunks = <<Chunk(0, 2), Chunk(3, 3), Chunk(5, 6)>>
    /\ Len(fn_out.runs) = 2

\* every node at and below this one has the sum of its own entries and of
\* its children's sums
RECURSIVE SumsRight(_)
SumsRight(node) ==
    /\ node.token_sum = file_tokens_of(node)
                        + SumOver([c \in DOMAIN node.children |-> node.children[c].token_sum],
                                  DOMAIN node.children)
    /\ \A c \in DOMAIN node.children : SumsRight(node.children[c])
TokensOf(entries) == SumSeq([i \in 1..Len(entries) |-> entries[i].tokens])
HasParts(e) == e.path # <<>>

C19_TopFiles ==
    PackOk =>
        LET n == IF config.top_files_length < Len(file_stats)
                 THEN config.top_files_length ELSE Len(file_stats)
        IN /\ Len(file_stats) = VisitCount(Kept)
           /\ \A i, j \in 1..Len(file_stats) : i < j => StatTokens[i] >= StatTokens[j]
           /\ result.top_files = SubSeq(file_stats, 1, n)
           /\ \A i \in 1..n, j \in (n + 1)..Len(file_stats) :
                  result.top_files[i].token_count >= StatTokens[j]
           /\ config.top_files_length = 0 => result.top_files = <<>>
C19_Witness ==
    /\ PackOk /\ config.top_files_length = 1
    /\ Len(file_stats) = 2 /\ StatTokens[1] > StatTokens[2]
    /\ PathLess(file_stats[2].path, file_stats[1].path)
    /\ result.top_files = <<file_stats[1]>>
C19_WitnessNone ==
    /\ PackOk /\ config.top_files_length = 0
    /\ Len(file_stats) = 2 /\ result.top_files = <<>>

\* the lines the server has read, and the requests among them
LinesRead == SubSeq(fn_in.lines, 1, Len(fn_in.lines) - Len(stdin))
IsRequest(line) == line.kind = "request"
RequestsRead == SelectSeq(LinesRead, IsRequest)

\* C20: the responses written are those to the requests read, one for one
\* and in order: each echoes the id of its request and has exactly one of
\* result and error set, a result for initialize, tools/list and a call of
\* pack_codebase that pack completes, the error -32601 for an unknown
\* method; blank and unparsable lines leave no response; and the server
\* does not stop while a request is left in its input, whatever lines it
\* has read
C20_OneForOne ==
    caller = "mcp" /\ server # "none" =>
        /\ Len(stdout) = Len(RequestsRead)
        /\ \A k \in 1..Len(stdout) :
               LET req == RequestsRead[k]
                   res == stdout[k]
               IN /\ res.id = req.id
                  /\ (res.result = Null) # (res.error = Null)
                  /\ req.method \in {"initialize", "tools/list"} => res.error = Null
                  /\ req.method = "tools/call" /\ req.params = "dir_ok" => res.error = Null
                  /\ req.method \in {"resources/list", "notifications/initialized"} =>
                         res.error # Null /\ res.error.code = -32601
        /\ server # "serving" => \A i \in 1..Len(stdin) : ~IsRequest(stdin[i])

\* the positions of a task at which it is inside a critical section
Locked == {"susp_locked", "push_locked", "insert_locked"}
\* a task can take its next step: it is not at a lock another task holds
CanRun(a) ==
    task[a].pc \in {"susp", "push", "insert"} => is_free(LockAt(task[a].pc))

\* C21: in pack a task holds no lock when the callback has read, scanned,
\* transformed and counted its file and between its writes, it holds exactly
\* the one lock of the list or map it is writing to during a push or an
\* insert, never two locks, no lock is held by two tasks, and whenever tasks
\* are in flight one of them can take a step
C21_NoLockAcrossWork ==
    caller = "pack" =>
        /\ \A a \in DOMAIN task :
               /\ Cardinality(task[a].held) <= 1
               /\ task[a].pc \in {"susp", "add", "push", "insert"} =>
                      /\ task[a].held = {}
                      /\ task[a].token_count = count_tokens(task[a].final)
                      /\ task[a].char_count = chars_count(task[a].final)
               /\ task[a].pc = "susp_locked" => task[a].held = {"suspicious_files"}
               /\ task[a].pc = "push_locked" => task[a].held = {"file_stats"}
               /\ task[a].pc = "insert_locked" => task[a].held = {"files"}
        /\ \A a, b \in DOMAIN task : a # b => task[a].held \cap task[b].held = {}
        /\ DOMAIN task # {} => \E a \in DOMAIN task : CanRun(a)
\* two tasks are in flight, one inside the critical section of the stats
\* list and the other waiting for that lock
C21_Witness ==
    /\ caller = "pack"
    /\ \E a, b \in DOMAIN task :
           /\ task[a].pc = "push_locked" /\ task[b].pc = "push"
           /\ ~CanRun(b) /\ CanRun(a)

\* the path of an entry below its root
RelOf(i, e) == SubSeq(e.path, Len(paths[i]) + 1, Len(e.path))
\* what the claim asks of an entry of the i-th root for a visit
VisitDue(i, e) ==
    /\ e.is_file
    /\ IsPrefix(paths[i], e.path) /\ RelOf(i, e) # <<>>
    /\ include_matches(config, paths[i], RelOf(i, e))
    /\ \A p \in config.custom_patterns : ~GlobMatch(normalize_ignore_pattern(p), RelOf(i, e))
    /\ config.use_default_patterns =>
           \A p \in DEFAULT_IGNORE_PATTERNS : ~GlobMatch(normalize_ignore_pattern(p), RelOf(i, e))
    /\ ~(config.output_path # <<>> /\ e.path = config.output_path)
\* the entries of the i-th root the walker has dealt with
Passed(i) ==
    IF i < root_idx THEN EntriesOf(paths[i])
    ELSE IF i = root_idx /\ pc = "walking" THEN EntriesOf(paths[i]) \ todo
    ELSE {}

\* C22: visit is invoked for an entry of a root only if the entry is a
\* regular file with a non-empty relative path that the include matcher
\* accepts, that no custom and no enabled default ignore pattern matches and
\* that is not the output file; it is invoked once, with the path relative
\* to the root; and it is invoked for every such entry the walker has
\* passed
C22_VisitIff ==
    /\ \A v \in Candidates :
           /\ v.root \in 1..Len(paths)
           /\ \E e \in EntriesOf(paths[v.root]) :
                  e.path = v.abs /\ VisitDue(v.root, e) /\ v.rel = RelOf(v.root, e)
           /\ CopiesIn(v, visited) = 1
    /\ \A i \in 1..Len(paths) : \A e \in Passed(i) :
           VisitDue(i, e) => [root |-> i, abs |-> e.path, rel |-> RelOf(i, e)] \in Candidates
\* a walk is over in which a file was the output file and another was visited
C22_Witness ==
    /\ caller = "walk" /\ pc = "returned" /\ walk_result = "Ok"
    /\ paths = <<D1>> /\ config.output_path = D1 \o <<1>>
    /\ config.include = {} /\ config.custom_patterns = {} /\ ~config.use_default_patterns
    /\ config.stdin_file_paths = {}
    /\ {v.abs : v \in Candidates} = FilesOf(D1) \ {D1 \o <<1>>}
    /\ Candidates # {}

\* C23: when the caller supplied an include glob or a stdin path, visit is
\* invoked, in every root, only for files that match an include glob or are
\* one of the stdin paths; so with no include glob a root that holds none of
\* the stdin paths has no file visited
C23_AllowList ==
    config.include \cup config.stdin_file_paths # {} =>
        \A v \in Candidates :
            \/ \E g \in config.include : GlobMatch(g, v.rel)
            \/ v.abs \in config.stdin_file_paths

\* the FileStats record of a candidate that is kept
StatOf(v) ==
    [path |-> v.rel, token_count |-> count_tokens(FinalOf(v)), char_count |-> chars_count(FinalOf(v))]
Unread(v) == ReadOf(v).tag \in {"None", "Err"}

\* C24: a candidate whose read is skipped or fails does not abort pack and
\* leaves nothing behind: when the roots are good the walk returns Ok and
\* pack returns Ok; once the walk is over the stats list holds the records
\* of the candidates that were read and not flagged and nothing else, the
\* suspicious list the paths of the flagged ones and nothing else, the
\* content map the contents of kept candidates, and the character total
\* their characters, as if the other candidates had not been visited
C24_ReadOutcomeLocal ==
    /\ WalkOver /\ paths # <<>> /\ BadRoots = {} => walk_result = "Ok"
    /\ caller = "pack" /\ pc = "done" /\ paths # <<>> /\ BadRoots = {} => result.tag = "Ok"
    /\ WalkOver =>
        /\ Len(file_stats) = VisitCount(Kept)
        /\ \A v \in Candidates : Kept(v) =>
               Occurrences(file_stats, StatOf(v))
                   = VisitCount(LAMBDA w : Kept(w) /\ StatOf(w) = StatOf(v))
        /\ Len(suspicious_files) = VisitCount(Flagged)
        /\ \A v \in Candidates : Flagged(v) =>
               Occurrences(suspicious_files, v.rel)
                   = VisitCount(LAMBDA w : Flagged(w) /\ w.rel = v.rel)
        /\ DOMAIN files = {v.rel : v \in {w \in Candidates : Kept(w)}}
        /\ \A q \in DOMAIN files : \E v \in Candidates : Kept(v) /\ v.rel = q /\ files[q] = FinalOf(v)
        /\ total_chars = SumSeq([i \in 1..Len(file_stats) |-> file_stats[i].char_count])
\* pack has returned Ok over a directory with a file whose metadata cannot
\* be read and a file that was kept
C24_Witness ==
    /\ PackOk
    /\ \E v \in Candidates : ReadOf(v).tag = "Err" /\ v.rel \notin DOMAIN files
                             /\ v.rel \notin Range(StatPaths) /\ v.rel \notin Range(suspicious_files)
    /\ Len(file_stats) >= 1 /\ DOMAIN files # {}
\* the same with a file above the size limit, which read_file skips
C24_WitnessSkipped ==
    /\ PackOk
    /\ \E v \in Candidates : ReadOf(v).tag = "None" /\ v.rel \notin DOMAIN files
                             /\ v.rel \notin Range(StatPaths) /\ v.rel \notin Range(suspicious_files)
    /\ Len(file_stats) >= 1 /\ DOMAIN files # {}

\* the characters of a chunk's content: those of its lines and the "\n"
\* between them
CharLen(text_lines, chunk) ==
    SumSeq([i \in 1..Len(chunk.content) |-> text_lines[chunk.content[i] + 1].chars])
        + Len(chunk.content) - 1
StartRows(chunks) == {chunks[i].start_row : i \in 1..Len(chunks)}

\* C25: the deduplication keeps, for each start_row among the captured
\* chunks, exactly one chunk, a captured chunk of that start_row that no
\* captured chunk of the same start_row exceeds in characters; it keeps no
\* other chunk, and the list it leaves is in strictly ascending order of
\* start_row
C25_DedupeKeepsLongest ==
    caller = "fn" /\ fn_in.op = "compress_chunks" /\ fn_out # None =>
        LET captured == fn_out.captured
            filtered == fn_out.filtered
        IN /\ StartRows(filtered) = StartRows(captured)
           /\ Len(filtered) = Cardinality(StartRows(captured))
           /\ \A k \in 1..Len(filtered) :
                  /\ filtered[k] \in Range(captured)
                  /\ \A i \in 1..Len(captured) :
                         captured[i].start_row = filtered[k].start_row =>
                             CharLen(fn_in.lines, captured[i]) <= CharLen(fn_in.lines, filtered[k])
           /\ \A k \in 1..(Len(filtered) - 1) : filtered[k].start_row < filtered[k + 1].start_row
\* a short and a long capture of row 0 come before one of row 1, in a text
\* with lines of several bytes per character
C25_Witness ==
    /\ caller = "fn" /\ fn_in.op = "compress_chunks" /\ fn_out # None
    /\ fn_in.captures = <<<<1, 1>>, <<0, 0>>, <<0, 2>>>>
    /\ fn_in.lines[1] = WideLine
    /\ fn_out.filtered = <<Chunk(0, 1), Chunk(1, 1)>>

\* the rows a list of runs emits, one after the other
RECURSIVE RowsOf(_)
RowsOf(runs) == IF runs = <<>> THEN <<>> ELSE Head(runs).content \o RowsOf(Tail(runs))

\* C29: the merged runs of compress_content cover disjoint ranges of rows in
\* strictly ascending order, no row is emitted twice, and every run has
\* start_row <= end_row < the number of lines, whatever chunks were captured
C29_RunsDisjoint ==
    caller = "fn" /\ fn_in.op = "compress_chunks" /\ fn_out # None =>
        LET runs == fn_out.merged IN
        /\ \A k, l \in 1..Len(runs) : k < l => runs[k].end_row < runs[l].start_row
        /\ \A i, j \in 1..Len(RowsOf(runs)) : i # j => RowsOf(runs)[i] # RowsOf(runs)[j]
        /\ \A k \in 1..Len(runs) :
               runs[k].start_row <= runs[k].end_row /\ runs[k].end_row < Len(fn_in.lines)
\* the bounds alone: every run has start_row <= end_row < the number of lines
C29_RunsInBounds ==
    caller = "fn" /\ fn_in.op = "compress_chunks" /\ fn_out # None =>
        \A k \in 1..Len(fn_out.merged) :
            /\ fn_out.merged[k].start_row <= fn_out.merged[k].end_row
            /\ fn_out.merged[k].end_row < Len(fn_in.lines)

\* a data-URI literal with its payload replaced by the first 32 characters
\* and "..." when the payload has 40 characters or more
PayloadReplaced(in) ==
    in.prefix \o DataPrefix \o in.mime \o in.params \o Base64Mark
        \o (IF Len(in.payload) >= DATA_URI_MIN_LEN
            THEN SubSeq(in.payload, 1, TRUNCATION_LEN) \o <<".", ".", ".">>
            ELSE in.payload)
        \o in.suffix

\* C26: truncation of a data-URI literal leaves the text before it, the
\* text after it, "data:", the mime type, every ";param" segment and
\* ";base64," as they are and replaces the payload alone
C26_OnlyPayloadReplaced ==
    caller = "fn" /\ fn_in.op = "truncate_base64_content" /\ fn_out # None =>
        fn_out.text = PayloadReplaced(fn_in)
\* the same for the literals with at most one ";param" segment
C26_OneParam ==
    caller = "fn" /\ fn_in.op = "truncate_base64_content" /\ fn_out # None
        /\ Len(SelectSeq(fn_in.params, LAMBDA c : c = ";")) <= 1 =>
            fn_out.text = PayloadReplaced(fn_in)

\* a line cut at its first "//"
CutAtLineComment(line) ==
    IF Find(line, <<"/", "/">>, 1) = 0 THEN line ELSE SubSeq(line, 1, Find(line, <<"/", "/">>, 1) - 1)

\* C27: the output of strip_c_like_comments has as many newlines as its
\* input; a text that is one block comment becomes the newlines it holds;
\* and in a text without a block comment every line is cut at its first
\* "//", its line terminator staying
C27_LineNumbersKept ==
    caller = "fn" /\ fn_in.op = "strip_c_like_comments" /\ fn_out # None =>
        LET in == fn_in.text
            out == fn_out.text
        IN /\ Len(SelectSeq(out, LAMBDA c : c = NL)) = Len(SelectSeq(in, LAMBDA c : c = NL))
           /\ StartsWith(in, <<"/", "*">>) /\ Find(in, <<"*", "/">>, 3) = Len(in) - 1 =>
                  out = SelectSeq(in, LAMBDA c : c = NL)
           /\ Find(in, <<"/", "*">>, 1) = 0 =>
                  /\ Len(Pieces(out)) = Len(Pieces(in))
                  /\ \A i \in 1..Len(Pieces(in)) : Pieces(out)[i] = CutAtLineComment(Pieces(in)[i])
\* a block comment over two lines, then a line comment and its newline
C27_Witness ==
    /\ caller = "fn" /\ fn_in.op = "strip_c_like_comments" /\ fn_out # None
    /\ fn_in.text = <<"/", "*", NL, "*", "/", "/", "/", NL>>
    /\ fn_out.text = <<NL, NL>>


\* a written pattern begins with "**/"
BeginsRecursive(p) == p.comps # <<>> /\ Head(p.comps) = StarStar /\ (Len(p.comps) > 1 \/ p.slash)
\* a written pattern ends in "/" but not in "**/"
EndsInSlash(p) == p.slash /\ (p.comps = <<>> \/ p.comps[Len(p.comps)] # StarStar)
\* the files beneath the directory name: the paths that begin with it
Beneath(name, path) == Len(path) > 1 /\ Head(path) = name
\* C28: normalize_ignore_pattern strips the trailing slashes of a pattern that ends in "/" but not in "**/", appends "/**" to a pattern that begins with "**/" and holds neither a further "/**" nor a dot, and returns every other pattern as written; and under the pattern "name/" as under "**/name" should_skip excludes every file beneath the directory name
C28_DirectoryPatternsExclude ==
    caller = "fn" /\ fn_in.op = "should_skip" /\ fn_out # None =>
        LET p == fn_in.pattern IN
        /\ fn_out.glob =
               IF EndsInSlash(p) THEN p.comps
               ELSE IF BeginsRecursive(p) /\ ~ContainsSlashStarStar(p.comps) /\ ~ContainsDot(p.comps)
                    THEN Written(p) \o <<StarStar>>
                    ELSE Written(p)
        /\ \/ p = [comps |-> <<DirName>>, slash |-> TRUE]
           \/ p = [comps |-> <<StarStar, DirName>>, slash |-> FALSE]
           => (Beneath(DirName, fn_in.relative) => fn_out.skip)
\* the rewriting alone, and the "**/name" half of what follows from it
C28_Rewritten ==
    caller = "fn" /\ fn_in.op = "should_skip" /\ fn_out # None =>
        LET p == fn_in.pattern IN
        /\ fn_out.glob =
               IF EndsInSlash(p) THEN p.comps
               ELSE IF BeginsRecursive(p) /\ ~ContainsSlashStarStar(p.comps) /\ ~ContainsDot(p.comps)
                    THEN Written(p) \o <<StarStar>>
                    ELSE Written(p)
        /\ p = [comps |-> <<StarStar, DirName>>, slash |-> FALSE] /\ Beneath(DirName, fn_in.relative)
               => fn_out.skip
\* under the pattern "name/" the file name/1 is not excluded
C28_TrailingSlashKeepsFile ==
    /\ caller = "fn" /\ fn_in.op = "should_skip" /\ fn_out # None
    /\ fn_in.pattern = [comps |-> <<DirName>>, slash |-> TRUE]
    /\ fn_in.relative = <<DirName, 1>>
    /\ fn_out.glob = <<DirName>>
    /\ ~fn_out.skip


\* what C30 says of the collections of a pack whose walk returned Ok
Consistent ==
    /\ Range(StatPaths) = DOMAIN files
    /\ \A k \in DOMAIN files : Occurrences(StatPaths, k) = 1
    /\ DOMAIN files \cap Range(result.suspicious_files) = {}
    /\ result.has_secrets <=> result.suspicious_files # <<>>
    /\ Len(result.sorted_paths) = Cardinality(DOMAIN files)
    /\ Range(result.sorted_paths) = DOMAIN files
\* C30: when pack has returned Ok, the FileStats list holds exactly one record for every key of the content map and none for another path, no key is in suspicious_files, has_secrets tells whether suspicious_files holds a path, and sorted_paths lists every key once and nothing else
C30_CollectionsAgree == PackOk => Consistent
\* the same when no two candidates have one relative path
C30_AgreeWithoutCollision == PackOk /\ C6_UniqueRelativePaths => Consistent
\* two roots hold a file at one relative path: one key, two FileStats records
C30_TwoRecordsForOneKey ==
    /\ PackOk
    /\ \E k \in DOMAIN files : Occurrences(StatPaths, k) = 2
\* one of the two files holds a secret: its path is a key and is suspicious
C30_KeyAlsoSuspicious ==
    /\ PackOk
    /\ DOMAIN files \cap Range(result.suspicious_files) # {}
\* a pack of a kept file and a flagged one, each at its own path
C30_Witness ==
    /\ PackOk /\ C6_UniqueRelativePaths
    /\ DOMAIN files # {}
    /\ result.has_secrets

====
